---------------------------- MODULE Spec2Model ----------------------------
(***************************************************************************)
(* Sparse voxel octree collider of the splat viewer (voxel-collider.ts):   *)
(* the octree walk isVoxelSolid, the point / sphere / capsule queries with *)
(* their iterative contact resolution, and the asynchronous load; the      *)
(* block and voxel classification of the overlay shader                    *)
(* (voxel-debug-overlay.ts); and main() of the viewer (index.ts), which    *)
(* starts the load.                                                        *)
(*                                                                         *)
(* Numbers.  A u32 word is kept as two limbs [hi |-> bits 24..31,          *)
(* lo |-> bits 0..23]: `node >>> 24 & 0xFF` is the hi limb and             *)
(* `node & 0x00FFFFFF` the lo limb, so no 32-bit value ever has to fit a   *)
(* model integer.  World-space lengths are fixed point, Unit ticks per     *)
(* world unit, which makes PENETRATION_EPSILON = 1e-4 exactly one tick.    *)
(***************************************************************************)
EXTENDS Integers, Sequences, FiniteSets, TLC

VARIABLES
    \* ---- VoxelCollider fields (voxel-collider.ts 57..93)
    gridMin,            \* [x, y, z] world-space origin, in ticks
    numVoxels,          \* [x, y, z] voxels per axis
    voxelResolution,    \* edge of one voxel, in ticks
    leafSize,           \* voxels per leaf edge
    treeDepth,          \* octree levels above the leaf level
    nodes,              \* sequence of words; nodes[i+1] is the code's nodes[i]
    leafData,           \* sequence of words; leafData[i+1] is the code's leafData[i]
    _push,              \* scratch push-out vector of the collider
    _constraintNormals, \* three scratch constraint normals of the collider
    \* ---- a caller of isVoxelSolid
    src,                \* the occupancy the arrays were encoded from, or NoSrc
    probe,              \* the voxel index last asked for, or NoProbe
    probeRes,           \* what isVoxelSolid answered and what it read
    gpu,                \* what the overlay shader makes of the same voxel, or NoGpu
    pcall,              \* a call of popcount: its argument and result, or NoCall
    \* ---- a caller of queryPoint / querySphere / queryCapsule
    q,                  \* the query in progress: its locals and position
    out,                \* the caller-owned PushOut
    ret,                \* what the last finished query returned
    \* ---- VoxelCollider.load
    ld,                 \* the load in progress: its locals and position
    \* ---- main (index.ts)
    mn,                 \* main(): its position and the promises it creates
    \* ---- main of the overlay shader (voxel-debug-overlay.ts, WGSL)
    rm,                 \* one invocation of the kernel: its locals and position
    \* ---- FpsController (fps-controller.ts)
    fps,                \* the first-person controller
    \* ---- the Viewer's render gate (viewer.ts)
    vw                  \* what decides whether the next frame is rendered

gridVars == <<gridMin, numVoxels, voxelResolution, leafSize, treeDepth, nodes, leafData>>
scratchVars == <<_push, _constraintNormals>>
probeVars == <<src, probe, probeRes, gpu, pcall>>
queryVars == <<q, out, ret>>
appVars == <<mn, rm, fps, vw>>
vars == <<gridVars, scratchVars, probeVars, queryVars, ld, appVars>>

---------------------------------------------------------------------------
(* Words and bit operations                                                *)

Word(h, l) == [hi |-> h, lo |-> l]

ZeroWord == Word(0, 0)

\* const SOLID_LEAF_MARKER = 0xFF000000 >>> 0
SOLID_LEAF_MARKER == Word(255, 0)

Pow2(k) == 2 ^ k

\* a >>> k on a non-negative integer below 2^31
Shr(a, k) == a \div Pow2(k)

RECURSIVE BitAnd(_, _)
BitAnd(a, b) ==
    IF a = 0 \/ b = 0 THEN 0
    ELSE (a % 2) * (b % 2) + 2 * BitAnd(a \div 2, b \div 2)

\* (w >>> k) & 1 of a u32 word, 0 <= k <= 31
WordBit(w, k) ==
    IF k < 24 THEN Shr(w.lo, k) % 2 ELSE Shr(w.hi, k - 24) % 2

\* popcount, computed as the code computes it (SWAR).  The code calls it with
\* childMask & prefix only, an 8-bit value: the final product stays below 2^31
\* there, so `>>> 24` sees it unwrapped.
popcount(n) ==
    LET n1 == n - BitAnd(Shr(n, 1), 1431655765)
        n2 == BitAnd(n1, 858993459) + BitAnd(Shr(n1, 2), 858993459)
        n3 == BitAnd(n2 + Shr(n2, 4), 252645135)
    IN  Shr(n3 * 16843009, 24)

---------------------------------------------------------------------------
(* Octree traversal                                                        *)

\* this.nodes[i] >>> 0: a read past the end of a Uint32Array is undefined,
\* and undefined >>> 0 is 0
NodeAt(i) == IF i < Len(nodes) THEN nodes[i + 1] ELSE ZeroWord

LeafAt(i) == IF i < Len(leafData) THEN leafData[i + 1] ELSE ZeroWord

\* checkLeafByIndex with x and y exchanged in the bit index
checkLeafByIndexSwapped(node, ix, iy, iz) ==
    LET leafDataIndex == node.lo
        bitIndex == (iz % 4) * 16 + (ix % 4) * 4 + (iy % 4)
    IN  IF bitIndex < 32
        THEN [solid |-> WordBit(LeafAt(leafDataIndex * 2), bitIndex) = 1,
              leafReads |-> <<leafDataIndex * 2>>]
        ELSE [solid |-> WordBit(LeafAt(leafDataIndex * 2 + 1), bitIndex - 32) = 1,
              leafReads |-> <<leafDataIndex * 2 + 1>>]

\* checkLeafByIndex: the bit of voxel (ix, iy, iz) in the leaf's 64-bit mask,
\* with the leafData index that was read
checkLeafByIndex(node, ix, iy, iz) ==
    LET leafDataIndex == node.lo
        vx == ix % 4
        vy == iy % 4
        vz == iz % 4
        bitIndex == vz * 16 + vy * 4 + vx
    IN  IF bitIndex < 32
        THEN [solid |-> WordBit(LeafAt(leafDataIndex * 2), bitIndex) = 1,
              leafReads |-> <<leafDataIndex * 2>>]
        ELSE [solid |-> WordBit(LeafAt(leafDataIndex * 2 + 1), bitIndex - 32) = 1,
              leafReads |-> <<leafDataIndex * 2 + 1>>]

\* the leaf-level tail of isVoxelSolid, after the depth loop
LeafLevel(nodeIndex, ix, iy, iz, reads) ==
    LET node == NodeAt(nodeIndex)
        rd == Append(reads, nodeIndex)
    IN  IF node = SOLID_LEAF_MARKER
        THEN [solid |-> TRUE, nodeReads |-> rd, leafReads |-> <<>>]
        ELSE LET r == checkLeafByIndex(node, ix, iy, iz)
             IN  [solid |-> r.solid, nodeReads |-> rd, leafReads |-> r.leafReads]

\* ChildOffset with the octant's own bit counted
ChildOffsetInclusive(childMask, octant) ==
    popcount(BitAnd(childMask, Pow2(octant + 1) - 1))

\* the child slot of a present octant: popcount of the lower mask bits
ChildOffset(childMask, octant) == popcount(BitAnd(childMask, Pow2(octant) - 1))

\* the octant of a block at a tree level
Octant(blockX, blockY, blockZ, level) ==
    LET bitX == Shr(blockX, level) % 2
        bitY == Shr(blockY, level) % 2
        bitZ == Shr(blockZ, level) % 2
    IN  bitZ * 4 + bitY * 2 + bitX

\* the depth loop without the sentinel test: 0xFF000000 decoded as an interior
\* node with childMask 0xFF and baseOffset 0
RECURSIVE DescendNoSentinel(_, _, _, _, _, _)
DescendNoSentinel(level, nodeIndex, ix, iy, iz, reads) ==
    IF level < 0 THEN LeafLevel(nodeIndex, ix, iy, iz, reads)
    ELSE
    LET node == NodeAt(nodeIndex)
        rd == Append(reads, nodeIndex)
        childMask == node.hi
        octant == Octant(ix \div leafSize, iy \div leafSize, iz \div leafSize, level)
    IN  IF childMask = 0
        THEN LET r == checkLeafByIndex(node, ix, iy, iz)
             IN  [solid |-> r.solid, nodeReads |-> rd, leafReads |-> r.leafReads]
        ELSE IF Shr(childMask, octant) % 2 = 0
        THEN [solid |-> FALSE, nodeReads |-> rd, leafReads |-> <<>>]
        ELSE DescendNoSentinel(level - 1, node.lo + ChildOffset(childMask, octant),
                               ix, iy, iz, rd)

\* the depth loop of isVoxelSolid, one call per value of `level`
RECURSIVE Descend(_, _, _, _, _, _)
Descend(level, nodeIndex, ix, iy, iz, reads) ==
    IF level < 0 THEN LeafLevel(nodeIndex, ix, iy, iz, reads)
    ELSE
    LET node == NodeAt(nodeIndex)
        rd == Append(reads, nodeIndex)
        childMask == node.hi
        octant == Octant(ix \div leafSize, iy \div leafSize, iz \div leafSize, level)
    IN  IF node = SOLID_LEAF_MARKER
        THEN [solid |-> TRUE, nodeReads |-> rd, leafReads |-> <<>>]
        ELSE IF childMask = 0
        THEN LET r == checkLeafByIndex(node, ix, iy, iz)
             IN  [solid |-> r.solid, nodeReads |-> rd, leafReads |-> r.leafReads]
        ELSE IF Shr(childMask, octant) % 2 = 0
        THEN [solid |-> FALSE, nodeReads |-> rd, leafReads |-> <<>>]
        ELSE Descend(level - 1, node.lo + ChildOffset(childMask, octant),
                     ix, iy, iz, rd)

\* OutOfGrid with the upper bound off by one
OutOfGridInclusive(ix, iy, iz) ==
    \/ Len(nodes) = 0
    \/ ix < 0 \/ iy < 0 \/ iz < 0
    \/ ix > numVoxels.x \/ iy > numVoxels.y \/ iz > numVoxels.z

\* the range guard of isVoxelSolid
OutOfGrid(ix, iy, iz) ==
    \/ Len(nodes) = 0
    \/ ix < 0 \/ iy < 0 \/ iz < 0
    \/ ix >= numVoxels.x \/ iy >= numVoxels.y \/ iz >= numVoxels.z

\* isVoxelSolidTrace with the depth loop started one level too high
isVoxelSolidTraceExtraLevel(ix, iy, iz) ==
    IF OutOfGrid(ix, iy, iz)
    THEN [solid |-> FALSE, nodeReads |-> <<>>, leafReads |-> <<>>]
    ELSE Descend(treeDepth, 0, ix, iy, iz, <<>>)

\* isVoxelSolid with the node and leafData indices it read, in order
isVoxelSolidTrace(ix, iy, iz) ==
    IF OutOfGrid(ix, iy, iz)
    THEN [solid |-> FALSE, nodeReads |-> <<>>, leafReads |-> <<>>]
    ELSE Descend(treeDepth - 1, 0, ix, iy, iz, <<>>)

isVoxelSolid(ix, iy, iz) == isVoxelSolidTrace(ix, iy, iz).solid

---------------------------------------------------------------------------
(* The overlay shader (voxel-debug-overlay.ts, WGSL): queryBlock and the   *)
(* per-voxel mask test of main                                             *)

\* what a read past the end of a storage buffer may give: zero or a word of
\* the buffer
OobWords(buf) == {ZeroWord} \cup {buf[i] : i \in 1 .. Len(buf)}

GpuNodeAt(i, oob) == IF i < Len(nodes) THEN nodes[i + 1] ELSE oob

GpuLeafAt(i, oob) == IF i < Len(leafData) THEN leafData[i + 1] ELSE oob

\* countOneBits, the WGSL builtin
RECURSIVE countOneBits(_)
countOneBits(n) == IF n = 0 THEN 0 ELSE (n % 2) + countOneBits(n \div 2)

\* u32(b) >> level: the shift is by level mod 32
GpuShr(b, level) == IF level % 32 >= 31 THEN 0 ELSE Shr(b, level % 32)

\* iterations of the loop of queryBlock followed while level has wrapped
MaxWrappedSteps == 3

\* the loop did not return within MaxWrappedSteps iterations after level wrapped
Spinning == [result |-> -1, emptyLevel |-> 0, past |-> FALSE, reads |-> 1]

\* "Reached leaf level" of queryBlock; past is whether a node was read past
\* the end of the buffer, reads counts the nodes read
queryBlockLeaf(nodeIndex, oob, past) ==
    LET node == GpuNodeAt(nodeIndex, oob)
        pst == past \/ nodeIndex >= Len(nodes)
    IN  IF node = SOLID_LEAF_MARKER
        THEN [result |-> 1, emptyLevel |-> 0, past |-> pst, reads |-> 1]
        ELSE [result |-> 2 + node.lo, emptyLevel |-> 0, past |-> pst, reads |-> 1]

\* the loop of queryBlock, one call per iteration.  level is a u32: with
\* treeDepth = 0 it starts at depth - 1u = 2^32 - 1, written here as -1 (a
\* negative level stands for 2^32 + level)
RECURSIVE queryBlockLoop(_, _, _, _, _, _, _, _)
queryBlockLoop(level, nodeIndex, bx, by, bz, oob, fuel, past) ==
    LET node == GpuNodeAt(nodeIndex, oob)
        pst == past \/ nodeIndex >= Len(nodes)
        childMask == node.hi
        bitX == GpuShr(bx, level) % 2
        bitY == GpuShr(by, level) % 2
        bitZ == GpuShr(bz, level) % 2
        octant == bitZ * 4 + bitY * 2 + bitX
        baseOffset == node.lo
        prefix == Pow2(octant) - 1
        childOffset == countOneBits(BitAnd(childMask, prefix))
        rest == IF level = 0 THEN queryBlockLeaf(baseOffset + childOffset, oob, pst)
                ELSE queryBlockLoop(level - 1, baseOffset + childOffset, bx, by, bz, oob,
                                    IF level < 0 THEN fuel - 1 ELSE fuel, pst)
    IN  IF node = SOLID_LEAF_MARKER
        THEN [result |-> 1, emptyLevel |-> 0, past |-> pst, reads |-> 1]
        ELSE IF childMask = 0
        THEN [result |-> 2 + node.lo, emptyLevel |-> 0, past |-> pst, reads |-> 1]
        ELSE IF BitAnd(childMask, Pow2(octant)) = 0
        THEN [result |-> 0, emptyLevel |-> level, past |-> pst, reads |-> 1]
        ELSE IF level < 0 /\ fuel = 0 THEN [Spinning EXCEPT !.past = pst]
        ELSE [rest EXCEPT !.reads = @ + 1]

\* queryBlock: 0 empty (with the level it was found at), 1 solid,
\* 2 + leafDataIndex a mixed leaf
queryBlock(bx, by, bz, oob) ==
    queryBlockLoop(treeDepth - 1, 0, bx, by, bz, oob, MaxWrappedSteps, FALSE)

\* whether main reads the mask words of a block past the end of leafData
LeafPast(blockResult) == blockResult > 1 /\ (blockResult - 2) * 2 + 1 >= Len(leafData)

\* the mask test with the low word used for every bit
GpuMaskTestLoOnly(maskLo, maskHi, vx, vy, vz) ==
    WordBit(maskLo, (vz * 16 + vy * 4 + vx) % 32) = 1

\* select(maskHi & (1u << (bitIndex - 32u)), maskLo & (1u << bitIndex), bitIndex < 32u)
GpuMaskTest(maskLo, maskHi, vx, vy, vz) ==
    LET bitIndex == vz * 16 + vy * 4 + vx
    IN  IF bitIndex < 32 THEN WordBit(maskLo, bitIndex) = 1
        ELSE WordBit(maskHi, bitIndex - 32) = 1

\* isSolid of the voxel loop of main for voxel (vx, vy, vz) of a block; an
\* empty block is not looked into
GpuVoxelSolid(blockResult, vx, vy, vz, oobLo, oobHi) ==
    IF blockResult <= 0 THEN FALSE
    ELSE IF blockResult = 1 THEN TRUE
    ELSE LET leafIdx == blockResult - 2
         IN  GpuMaskTest(GpuLeafAt(leafIdx * 2, oobLo), GpuLeafAt(leafIdx * 2 + 1, oobHi),
                         vx, vy, vz)

---------------------------------------------------------------------------
(* Source occupancy grids and their encoding into the two arrays           *)
(* (the writer is a companion tool; this follows the data model: breadth-  *)
(* first nodes, children of a node contiguous in octant order, a solid     *)
(* region as the sentinel, a partly solid block as a leaf with two mask    *)
(* words)                                                                  *)

MaxSeed == 3

EncDepths == {0, 1, 2}

NoSrc == [depth |-> -1, seed |-> -1]

Sources == [depth : EncDepths, seed : 0 .. MaxSeed]

\* voxels per axis of the cube a tree of depth d covers
CubeSize(d) == 4 * Pow2(d)

\* what the source puts in the region of level L that holds block (bx, by, bz):
\* "E" empty, "S" solid, "X" subdivided (at level 0: a partly solid block)
RegionKind(s, L, bx, by, bz) ==
    LET rx == Shr(bx, L)
        ry == Shr(by, L)
        rz == Shr(bz, L)
        h == (s.seed * (1 + rx + 2 * ry + 4 * rz) + L + rx + ry + rz) % 4
    IN  IF L = s.depth THEN (IF s.seed = 0 THEN "S" ELSE "X")
        ELSE IF h = 0 THEN "E" ELSE IF h = 1 THEN "S" ELSE "X"

\* the voxels of a partly solid block: no two axes alike, the lower and the
\* upper half of the block different
MixedBit(s, x, y, z) ==
    ((x % 4) + 2 * (y % 4) + 3 * (z % 4) + s.seed + (x \div 4)) % 5 = 0

\* the named scenes of the queries, as negative seeds: one solid voxel at the
\* origin, a floor one voxel thick, a floor with a wall, one solid block, a
\* grid solid throughout, a pocket (a wall, a ceiling two voxels up and a
\* block on the ground one voxel away from the wall), a ledge (a slab at
\* y = 4 that ends at x = 2)
Shape(seed, x, y, z) ==
    IF seed = -1 THEN x = 0 /\ y = 0 /\ z = 0
    ELSE IF seed = -2 THEN y = 0
    ELSE IF seed = -3 THEN y = 0 \/ x = 0
    ELSE IF seed = -4 THEN x < 4 /\ y < 4 /\ z < 4
    ELSE IF seed = -6 THEN x = 0 \/ y = 2 \/ (x = 2 /\ y = 0)
    ELSE IF seed = -7 THEN y = 4 /\ x >= 2
    ELSE TRUE

RECURSIVE SrcSolid(_, _, _, _, _)
SrcSolid(s, L, x, y, z) ==
    LET k == RegionKind(s, L, x \div 4, y \div 4, z \div 4)
    IN  IF s.seed < 0 THEN Shape(s.seed, x, y, z)
        ELSE IF k = "E" THEN FALSE
        ELSE IF k = "S" THEN TRUE
        ELSE IF L = 0 THEN MixedBit(s, x, y, z)
        ELSE SrcSolid(s, L - 1, x, y, z)

\* the source occupancy bit of voxel (x, y, z)
Occ(s, x, y, z) ==
    /\ x >= 0 /\ y >= 0 /\ z >= 0
    /\ x < CubeSize(s.depth) /\ y < CubeSize(s.depth) /\ z < CubeSize(s.depth)
    /\ SrcSolid(s, s.depth, x, y, z)

\* the voxels of region (rx, ry, rz) of level L along one axis
RegionRange(L, r) == (r * CubeSize(L)) .. ((r + 1) * CubeSize(L) - 1)

RegionAll(s, R, val) ==
    \A x \in RegionRange(R.L, R.rx), y \in RegionRange(R.L, R.ry),
       z \in RegionRange(R.L, R.rz) : Occ(s, x, y, z) = val

ChildRegion(R, o) ==
    [L |-> R.L - 1, rx |-> 2 * R.rx + (o % 2), ry |-> 2 * R.ry + (Shr(o, 1) % 2),
     rz |-> 2 * R.rz + Shr(o, 2)]

\* bits from..to-1 of the 64-bit mask of block R, as a number (bit k at 2^(k-from))
RECURSIVE MaskLimb(_, _, _, _)
MaskLimb(s, R, from, to) ==
    IF from >= to THEN 0
    ELSE LET k == to - 1
             b == IF Occ(s, 4 * R.rx + (k % 4), 4 * R.ry + (Shr(k, 2) % 4),
                         4 * R.rz + Shr(k, 4)) THEN 1 ELSE 0
         IN  b * Pow2(k - from) + MaskLimb(s, R, from, k)

RECURSIVE MaskOf(_, _, _)
MaskOf(s, R, o) ==
    IF o > 7 THEN 0
    ELSE (IF RegionAll(s, ChildRegion(R, o), FALSE) THEN 0 ELSE Pow2(o))
         + MaskOf(s, R, o + 1)

RECURSIVE ChildrenOf(_, _, _)
ChildrenOf(R, mask, o) ==
    IF o > 7 THEN <<>>
    ELSE (IF Shr(mask, o) % 2 = 1 THEN <<ChildRegion(R, o)>> ELSE <<>>)
         \o ChildrenOf(R, mask, o + 1)

\* breadth-first: queue[i] is the region of node i-1; its children go to the
\* end of the queue, so their first index is the queue's length
RECURSIVE Bfs(_, _, _, _, _)
Bfs(s, queue, i, ns, lf) ==
    IF i > Len(queue) THEN [nodes |-> ns, leafData |-> lf]
    ELSE
    LET R == queue[i]
    IN  IF RegionAll(s, R, TRUE)
        THEN Bfs(s, queue, i + 1, Append(ns, SOLID_LEAF_MARKER), lf)
        ELSE IF R.L = 0 \/ RegionAll(s, R, FALSE)
        THEN Bfs(s, queue, i + 1, Append(ns, Word(0, Len(lf) \div 2)),
                 lf \o << Word(MaskLimb(s, R, 24, 32), MaskLimb(s, R, 0, 24)),
                          Word(MaskLimb(s, R, 56, 64), MaskLimb(s, R, 32, 56)) >>)
        ELSE LET mask == MaskOf(s, R, 0)
             IN  Bfs(s, queue \o ChildrenOf(R, mask, 0), i + 1,
                     Append(ns, Word(mask, Len(queue))), lf)

Encode(s) == Bfs(s, << [L |-> s.depth, rx |-> 0, ry |-> 0, rz |-> 0] >>, 1, <<>>, <<>>)

---------------------------------------------------------------------------
(* Values of the variables a specification leaves alone                    *)

Vec(a, b, c) == [x |-> a, y |-> b, z |-> c]

ZeroVec == Vec(0, 0, 0)

Axes == {"x", "y", "z"}

\* private readonly _push = { x: 0, y: 0, z: 0 } and the three normals
FreshNormals == <<ZeroVec, ZeroVec, ZeroVec>>

\* no load started; the fields are the locals of VoxelCollider.load: the two
\* responses ("none" while not received, "ok", "notok" for a response whose ok
\* is false, "neterr" for a fetch that rejects) and the counts of the metadata
LdIdle ==
    [pc |-> "idle", meta |-> "none", bin |-> "none", nodeCount |-> 0, leafDataCount |-> 0,
     treeDepth |-> 0, words |-> 0]

NoProbe == <<>>

NoRes == [solid |-> FALSE, nodeReads |-> <<>>, leafReads |-> <<>>]

NoGpu == <<>>

NoCall == <<>>

\* no query made yet; the fields are the locals of querySphere / queryCapsule,
\* n counts the calls, out0 is the caller's out when the call began, resolves
\* counts the runs of the resolver
QInit ==
    [pc |-> "idle", n |-> 0, kind |-> "none", c |-> ZeroVec, halfHeight |-> 0,
     radius |-> 0, resolved |-> ZeroVec, total |-> ZeroVec, hadCollision |-> FALSE,
     numNormals |-> 0, iter |-> 0, resolves |-> 0, out0 |-> ZeroVec]

\* the kernel not invoked; the fields are the locals of main of the shader
\* for one pixel: the ray, the block (b) and the tMax (t) of the block DDA,
\* step and totalWork, and of the last iteration of the block loop the nodes
\* read by queryBlock (walk), whether the skip loop ran (skipped), the level
\* of the empty cell, the block the skip began at, the blocks it passed
\* through, its steps, and how the voxel loop ended ("none" if not run)
\* after how many steps
RmIdle ==
    [pc |-> "idle", ray |-> <<>>, b |-> ZeroVec, t |-> ZeroVec, step |-> 0, totalWork |-> 0,
     walk |-> 0, skipped |-> FALSE, skipLevel |-> 0, skipFrom |-> ZeroVec, passed |-> <<>>, skipSteps |-> 0,
     vEnd |-> "none", vSteps |-> 0]

\* main not called; the fields are the locals of main: which urls the config
\* has, the state of main's own promise (pc) and of the three load promises
\* ("none" for a load that was not started), and whether the Viewer exists
MnIdle ==
    [pc |-> "idle", voxelUrl |-> FALSE, skyboxUrl |-> FALSE, gsplat |-> "none",
     skybox |-> "none", voxel |-> "none", viewer |-> FALSE]

\* an FpsController as constructed: the fields that decide its position and
\* _onGround (the angles and their smoothing are left out).  pc is where
\* update stands, collider whether one is set, moveLerp the local of update;
\* updates counts the calls of update, last is the method called last,
\* pushedUp whether the target-position query of the last update pushed
\* upward while the capsule was falling, jumped whether that update began a
\* jump and midAir whether the update before it had no such push
FpsNew ==
    [pc |-> "idle", collider |-> FALSE, _targetPosition |-> ZeroVec, _position |-> ZeroVec,
     _velocityY |-> 0, _onGround |-> FALSE, moveLerp |-> 0, updates |-> 0,
     last |-> "new", pushedUp |-> FALSE, jumped |-> FALSE, midAir |-> FALSE]

\* the render gate of the Viewer before its constructor has run: the
\* application's renderNextFrame, state.readyToRender, forceRenderNextFrame,
\* config.ministats, the loading path taken once the loads resolved, the
\* camera's transform and the one last rendered with, whether the handler of
\* the path's ready event is still registered, and the step taken last
VwNew ==
    [pc |-> "new", renderNextFrame |-> FALSE, readyToRender |-> FALSE,
     forceRenderNextFrame |-> FALSE, ministats |-> FALSE, path |-> "none",
     world |-> 0, prevWorld |-> 0, listening |-> FALSE, last |-> "none"]

\* the parts of the application that are not running
AppIdle == rm = RmIdle /\ fps = FpsNew /\ vw = VwNew

RestIdle ==
    /\ _push = ZeroVec /\ _constraintNormals = FreshNormals
    /\ q = QInit /\ out = ZeroVec /\ ret = FALSE
    /\ ld = LdIdle
    /\ mn = MnIdle /\ AppIdle

---------------------------------------------------------------------------
(* SpecTraverse: isVoxelSolid asked about one voxel, on arrays encoded     *)
(* from a source occupancy and on synthetic arrays                         *)

MaxSynthNodes == 2

MaxSynthDepth == 2

\* node words of the synthetic arrays: the sentinel, a leaf, a full interior
\* node, an interior node that is its own child, an interior node whose
\* children lie past the end of the array
SynthWords == {SOLID_LEAF_MARKER, Word(0, 0), Word(255, 1), Word(1, 0), Word(170, 2)}

SynthNodes == UNION {[1 .. n -> SynthWords] : n \in 0 .. MaxSynthNodes}

\* no leaf data at all, or one leaf with voxels (0,0,0) and (3,3,3) solid
SynthLeafData == {<<>>, <<Word(0, 1), Word(128, 0)>>}

InitEncoded ==
    \E s \in Sources :
        /\ src = s
        /\ nodes = Encode(s).nodes
        /\ leafData = Encode(s).leafData
        /\ treeDepth = s.depth
        /\ numVoxels = Vec(CubeSize(s.depth), CubeSize(s.depth), CubeSize(s.depth))

InitSynth ==
    /\ src = NoSrc
    /\ nodes \in SynthNodes
    /\ leafData \in SynthLeafData
    /\ treeDepth \in 0 .. MaxSynthDepth
    /\ numVoxels = Vec(CubeSize(treeDepth), CubeSize(treeDepth), CubeSize(treeDepth))

InitTraverse ==
    /\ InitEncoded \/ InitSynth
    /\ gridMin = ZeroVec /\ voxelResolution = 1 /\ leafSize = 4
    /\ probe = NoProbe /\ probeRes = NoRes /\ gpu = NoGpu /\ pcall = NoCall
    /\ RestIdle

\* the indices asked about on one axis: every voxel of an encoded grid and one
\* step outside it; on a synthetic array the first and last voxel, the first of
\* the second block, and one step outside
ProbeCoords(n) ==
    IF src = NoSrc THEN {-1, 0, 4, n - 1, n} ELSE -1 .. n

Probe ==
    /\ probe = NoProbe /\ pcall = NoCall
    /\ \E ix \in ProbeCoords(numVoxels.x), iy \in ProbeCoords(numVoxels.y),
          iz \in ProbeCoords(numVoxels.z) :
        /\ probe' = <<ix, iy, iz>>
        /\ probeRes' = isVoxelSolidTrace(ix, iy, iz)
        /\ UNCHANGED <<gridVars, scratchVars, src, gpu, pcall, queryVars, ld, appVars>>

\* the shader run on the voxel that was asked about: queryBlock on its block,
\* then the mask test on its coordinates within the block.  The shader looks
\* at blocks of the grid only.  A read past the end of a buffer gives any of
\* OobWords; the choice is open only when such a read happens.
GpuClassify ==
    /\ probe # NoProbe /\ gpu = NoGpu
    /\ ~OutOfGrid(probe[1], probe[2], probe[3])
    /\ LET bx == probe[1] \div leafSize
           by == probe[2] \div leafSize
           bz == probe[3] \div leafSize
       IN  \E oobN \in IF queryBlock(bx, by, bz, ZeroWord).past THEN OobWords(nodes)
                        ELSE {ZeroWord} :
               LET qb == queryBlock(bx, by, bz, oobN)
                   oobL == IF LeafPast(qb.result) THEN OobWords(leafData) ELSE {ZeroWord}
               IN  \E oobLo \in oobL, oobHi \in oobL :
                       gpu' = [result |-> qb.result, emptyLevel |-> qb.emptyLevel,
                               past |-> qb.past \/ LeafPast(qb.result),
                               solid |-> GpuVoxelSolid(qb.result, probe[1] % leafSize,
                                                       probe[2] % leafSize, probe[3] % leafSize,
                                                       oobLo, oobHi)]
    /\ UNCHANGED <<gridVars, scratchVars, src, probe, probeRes, pcall, queryVars, ld, appVars>>

\* popcount called on a mask value; it is a function of the module that looks
\* at no field, called here beside the collider with no nodes
PopcountCall ==
    /\ probe = NoProbe /\ pcall = NoCall
    /\ Len(nodes) = 0
    /\ \E n \in 0 .. 255 : pcall' = [n |-> n, r |-> popcount(n)]
    /\ UNCHANGED <<gridVars, scratchVars, src, probe, probeRes, gpu, queryVars, ld, appVars>>

NextTraverse == Probe \/ GpuClassify \/ PopcountCall

SpecTraverse == InitTraverse /\ [][NextTraverse]_vars

---------------------------------------------------------------------------
(* Fixed-point arithmetic of the queries                                   *)
(* Lengths are whole ticks.  Sums, products, comparisons, Math.floor,      *)
(* Math.min and Math.max are exact on them; Math.sqrt and the divisions    *)
(* 1.0 / dist and 1.0 / len round to a tick.                               *)

\* ticks per world unit
Unit == 10000

\* const PENETRATION_EPSILON = 1e-4, in ticks
PENETRATION_EPSILON == 1

Min(a, b) == IF a < b THEN a ELSE b

Max(a, b) == IF a > b THEN a ELSE b

Abs(a) == IF a < 0 THEN -a ELSE a

\* a / b rounded to the nearest integer, b > 0
RDiv(a, b) ==
    IF a >= 0 THEN (2 * a + b) \div (2 * b) ELSE -((2 * (-a) + b) \div (2 * b))

RECURSIVE SqrtBetween(_, _, _)
SqrtBetween(n, lo, hi) ==
    IF lo >= hi THEN lo
    ELSE LET mid == (lo + hi + 1) \div 2
         IN  IF mid * mid <= n THEN SqrtBetween(n, mid, hi)
             ELSE SqrtBetween(n, lo, mid - 1)

\* Math.sqrt, rounded down to a tick
Sqrt(n) == SqrtBetween(n, 0, 46340)

VAdd(a, b) == Vec(a.x + b.x, a.y + b.y, a.z + b.z)

LenSq(v) == v.x * v.x + v.y * v.y + v.z * v.z

---------------------------------------------------------------------------
(* resolveDeepestPenetration / resolveDeepestPenetrationCapsule            *)

NoContact == [hit |-> FALSE, penetration |-> 0, push |-> ZeroVec]

\* the push of one solid voxel on a sphere as the second copy of the class
\* computes it (the copy that has querySphere only): as VoxelPush below, but
\* for a centre inside the voxel the escape is the distance to the nearer
\* face, without the radius
VoxelPushOther(cx, cy, cz, radius, ix, iy, iz) ==
    LET vMinX == gridMin.x + ix * voxelResolution
        vMinY == gridMin.y + iy * voxelResolution
        vMinZ == gridMin.z + iz * voxelResolution
        vMaxX == vMinX + voxelResolution
        vMaxY == vMinY + voxelResolution
        vMaxZ == vMinZ + voxelResolution
        dx == cx - Max(vMinX, Min(cx, vMaxX))
        dy == cy - Max(vMinY, Min(cy, vMaxY))
        dz == cz - Max(vMinZ, Min(cz, vMaxZ))
        distSq == dx * dx + dy * dy + dz * dz
        dist == Sqrt(distSq)
        pen == radius - dist
        escapeX == IF cx - vMinX < vMaxX - cx THEN -(cx - vMinX) ELSE vMaxX - cx
        escapeY == IF cy - vMinY < vMaxY - cy THEN -(cy - vMinY) ELSE vMaxY - cy
        escapeZ == IF cz - vMinZ < vMaxZ - cz THEN -(cz - vMinZ) ELSE vMaxZ - cz
        absX == Abs(escapeX)
        absY == Abs(escapeY)
        absZ == Abs(escapeZ)
    IN  IF distSq >= radius * radius THEN NoContact
        ELSE IF distSq > 0
        THEN [hit |-> TRUE, penetration |-> pen,
              push |-> Vec(RDiv(dx * pen, dist), RDiv(dy * pen, dist), RDiv(dz * pen, dist))]
        ELSE IF absX <= absY /\ absX <= absZ
        THEN [hit |-> TRUE, penetration |-> absX, push |-> Vec(escapeX, 0, 0)]
        ELSE IF absY <= absZ
        THEN [hit |-> TRUE, penetration |-> absY, push |-> Vec(0, escapeY, 0)]
        ELSE [hit |-> TRUE, penetration |-> absZ, push |-> Vec(0, 0, escapeZ)]

\* the push of one solid voxel on a sphere of the given radius centred at
\* (cx, cy, cz): lines 480..547 for the sphere, 615..621 and 638..697 for the
\* capsule (there cy is segY)
VoxelPush(cx, cy, cz, radius, ix, iy, iz) ==
    LET vMinX == gridMin.x + ix * voxelResolution
        vMinY == gridMin.y + iy * voxelResolution
        vMinZ == gridMin.z + iz * voxelResolution
        vMaxX == vMinX + voxelResolution
        vMaxY == vMinY + voxelResolution
        vMaxZ == vMinZ + voxelResolution
        nearX == Max(vMinX, Min(cx, vMaxX))
        nearY == Max(vMinY, Min(cy, vMaxY))
        nearZ == Max(vMinZ, Min(cz, vMaxZ))
        dx == cx - nearX
        dy == cy - nearY
        dz == cz - nearZ
        distSq == dx * dx + dy * dy + dz * dz
        dist == Sqrt(distSq)
        pen == radius - dist
        distNegX == cx - vMinX
        distPosX == vMaxX - cx
        distNegY == cy - vMinY
        distPosY == vMaxY - cy
        distNegZ == cz - vMinZ
        distPosZ == vMaxZ - cz
        escapeX == IF distNegX < distPosX THEN -(distNegX + radius) ELSE distPosX + radius
        escapeY == IF distNegY < distPosY THEN -(distNegY + radius) ELSE distPosY + radius
        escapeZ == IF distNegZ < distPosZ THEN -(distNegZ + radius) ELSE distPosZ + radius
        absX == Abs(escapeX)
        absY == Abs(escapeY)
        absZ == Abs(escapeZ)
    IN  IF distSq >= radius * radius THEN NoContact
        ELSE IF distSq > 0
        THEN [hit |-> TRUE, penetration |-> pen,
              push |-> Vec(RDiv(dx * pen, dist), RDiv(dy * pen, dist), RDiv(dz * pen, dist))]
        ELSE IF absX <= absY /\ absX <= absZ
        THEN [hit |-> TRUE, penetration |-> absX, push |-> Vec(escapeX, 0, 0)]
        ELSE IF absY <= absZ
        THEN [hit |-> TRUE, penetration |-> absY, push |-> Vec(0, escapeY, 0)]
        ELSE [hit |-> TRUE, penetration |-> absZ, push |-> Vec(0, 0, escapeZ)]

\* SegY with the top of the segment used against every row
SegYTop(cy, halfHeight, iy) == cy + halfHeight

\* the segment point of a vertical capsule used against voxel row iy
SegY(cy, halfHeight, iy) ==
    LET segBottomY == cy - halfHeight
        segTopY == cy + halfHeight
        vMinY == gridMin.y + iy * voxelResolution
        vMaxY == vMinY + voxelResolution
        aabbCenterY == (vMinY + vMaxY) \div 2
    IN  IF segTopY < vMinY THEN segTopY
        ELSE IF segBottomY > vMaxY THEN segBottomY
        ELSE Max(segBottomY, Min(segTopY, aabbCenterY))

\* Contact without the isVoxelSolid test
ContactAnyVoxel(kind, cx, cy, cz, halfHeight, radius, ix, iy, iz) ==
    IF kind = "capsule"
    THEN VoxelPush(cx, SegY(cy, halfHeight, iy), cz, radius, ix, iy, iz)
    ELSE IF kind = "sphereOther"
    THEN VoxelPushOther(cx, cy, cz, radius, ix, iy, iz)
    ELSE VoxelPush(cx, cy, cz, radius, ix, iy, iz)

\* the contact of voxel (ix, iy, iz) with the shape; halfHeight = 0 and
\* kind "sphere" for querySphere, "sphereOther" for querySphere of the second
\* copy of the class
Contact(kind, cx, cy, cz, halfHeight, radius, ix, iy, iz) ==
    IF ~isVoxelSolid(ix, iy, iz) THEN NoContact
    ELSE IF kind = "capsule"
    THEN VoxelPush(cx, SegY(cy, halfHeight, iy), cz, radius, ix, iy, iz)
    ELSE IF kind = "sphereOther"
    THEN VoxelPushOther(cx, cy, cz, radius, ix, iy, iz)
    ELSE VoxelPush(cx, cy, cz, radius, ix, iy, iz)

\* Math.floor((c - gridMin) / voxelResolution)
VoxelIndex(c, gmin) == (c - gmin) \div voxelResolution

\* Range with the rows below the centre left out
RangeAbove(kind, cx, cy, cz, halfHeight, radius) ==
    [ixMin |-> VoxelIndex(cx - radius, gridMin.x),
     iyMin |-> VoxelIndex(cy, gridMin.y),
     izMin |-> VoxelIndex(cz - radius, gridMin.z),
     ixMax |-> VoxelIndex(cx + radius, gridMin.x),
     iyMax |-> VoxelIndex(cy + (IF kind = "capsule" THEN halfHeight ELSE 0) + radius, gridMin.y),
     izMax |-> VoxelIndex(cz + radius, gridMin.z)]

\* the voxel index range of the shape's bounding box
Range(kind, cx, cy, cz, halfHeight, radius) ==
    LET hh == IF kind = "capsule" THEN halfHeight ELSE 0
    IN  [ixMin |-> VoxelIndex(cx - radius, gridMin.x),
         iyMin |-> VoxelIndex(cy - hh - radius, gridMin.y),
         izMin |-> VoxelIndex(cz - radius, gridMin.z),
         ixMax |-> VoxelIndex(cx + radius, gridMin.x),
         iyMax |-> VoxelIndex(cy + hh + radius, gridMin.y),
         izMax |-> VoxelIndex(cz + radius, gridMin.z)]

\* the k-th voxel of the range in scan order: iz outermost, ix innermost
ScanVoxel(rg, k) ==
    LET nx == rg.ixMax - rg.ixMin + 1
        ny == rg.iyMax - rg.iyMin + 1
    IN  [ix |-> rg.ixMin + (k % nx),
         iy |-> rg.iyMin + ((k \div nx) % ny),
         iz |-> rg.izMin + (k \div (nx * ny))]

ScanCount(rg) ==
    (rg.ixMax - rg.ixMin + 1) * (rg.iyMax - rg.iyMin + 1) * (rg.izMax - rg.izMin + 1)

NoBest == [found |-> FALSE, penetration |-> PENETRATION_EPSILON, push |-> ZeroVec]

\* Better with a voxel as deep as the running best taking its place
BetterOrEqual(best, c) ==
    IF c.hit /\ c.penetration >= best.penetration
    THEN [found |-> TRUE, penetration |-> c.penetration, push |-> c.push]
    ELSE best

\* Better with the push of every voxel as deep as the best added to it
BetterSumsTies(best, c) ==
    IF c.hit /\ c.penetration >= best.penetration
    THEN [found |-> TRUE, penetration |-> c.penetration, push |-> VAdd(best.push, c.push)]
    ELSE best

\* one voxel of the scan: the running best is replaced when penetration > best
Better(best, c) ==
    IF c.hit /\ c.penetration > best.penetration
    THEN [found |-> TRUE, penetration |-> c.penetration, push |-> c.push]
    ELSE best

\* the voxels lo .. hi - 1 of the scan, in scan order, from the running best.
\* The span is halved and the first half is evaluated before the second is
\* entered, so that the evaluation stays shallow
RECURSIVE ScanSpan(_, _, _, _, _, _, _, _, _, _)
ScanSpan(kind, cx, cy, cz, halfHeight, radius, rg, lo, hi, best) ==
    IF lo >= hi THEN best
    ELSE IF lo + 1 = hi
    THEN LET v == ScanVoxel(rg, lo)
         IN  Better(best, Contact(kind, cx, cy, cz, halfHeight, radius, v.ix, v.iy, v.iz))
    ELSE LET mid == (lo + hi) \div 2
             first == ScanSpan(kind, cx, cy, cz, halfHeight, radius, rg, lo, mid, best)
         IN  IF first = best
             THEN ScanSpan(kind, cx, cy, cz, halfHeight, radius, rg, mid, hi, best)
             ELSE ScanSpan(kind, cx, cy, cz, halfHeight, radius, rg, mid, hi, first)

\* the three nested loops over the range, from voxel k of the scan order on
Scan(kind, cx, cy, cz, halfHeight, radius, rg, k, best) ==
    ScanSpan(kind, cx, cy, cz, halfHeight, radius, rg, k, ScanCount(rg), best)

\* resolveDeepestPenetration and resolveDeepestPenetrationCapsule: whether a
\* voxel penetrates by more than epsilon, and the push of the deepest one
resolveDeepestPenetration(kind, cx, cy, cz, halfHeight, radius) ==
    Scan(kind, cx, cy, cz, halfHeight, radius,
         Range(kind, cx, cy, cz, halfHeight, radius), 0, NoBest)

---------------------------------------------------------------------------
(* queryPoint, querySphere, queryCapsule                                   *)

\* const maxIterations = 4
maxIterations == 4

\* the projection loop: components of p against the first n recorded normals
\* are removed, one normal after the other
RECURSIVE ProjectFrom(_, _, _, _)
ProjectFrom(p, i, n, normals) ==
    IF i >= n THEN p
    ELSE LET nm == normals[i + 1]
             dotS == p.x * nm.x + p.y * nm.y + p.z * nm.z
             dot == RDiv(dotS, Unit)
         IN  IF dotS < 0
             THEN ProjectFrom(Vec(p.x - RDiv(dot * nm.x, Unit), p.y - RDiv(dot * nm.y, Unit),
                                  p.z - RDiv(dot * nm.z, Unit)), i + 1, n, normals)
             ELSE ProjectFrom(p, i + 1, n, normals)

\* the projection with every slot of the scratch normals read, whether or not
\* the current call has written it
ProjectAllSlots(p, numNormals, normals) == ProjectFrom(p, 0, 3, normals)

\* for (let i = 0; i < numNormals; i++): the normals recorded so far
Project(p, numNormals, normals) == ProjectFrom(p, 0, numNormals, normals)

\* RecordsNormal without the test numNormals < 3
RecordsNormalUncapped(p, numNormals) ==
    LenSq(p) > PENETRATION_EPSILON * PENETRATION_EPSILON

\* len > PENETRATION_EPSILON && numNormals < 3
RecordsNormal(p, numNormals) ==
    LenSq(p) > PENETRATION_EPSILON * PENETRATION_EPSILON /\ numNormals < 3

\* push * (1.0 / len), a unit vector scaled by Unit
Normalized(p) ==
    LET len == Sqrt(LenSq(p))
    IN  Vec(RDiv(p.x * Unit, len), RDiv(p.y * Unit, len), RDiv(p.z * Unit, len))

MaxQueries == 2

\* queryPoint: one voxel looked up
queryPoint(x, y, z) ==
    /\ q.pc = "idle" /\ q.n < MaxQueries
    /\ ret' = isVoxelSolid(VoxelIndex(x, gridMin.x), VoxelIndex(y, gridMin.y),
                           VoxelIndex(z, gridMin.z))
    /\ q' = [QInit EXCEPT !.n = q.n + 1, !.kind = "point", !.c = Vec(x, y, z), !.out0 = out]
    /\ UNCHANGED <<gridVars, scratchVars, probeVars, out, ld, appVars>>

\* QueryStart with out cleared on entry
QueryStartClearsOut(kind, cx, cy, cz, halfHeight, radius) ==
    /\ q.pc = "idle" /\ q.n < MaxQueries
    /\ q' = [QInit EXCEPT !.pc = IF Len(nodes) = 0 THEN "idle" ELSE "loop",
                          !.n = q.n + 1, !.kind = kind, !.c = Vec(cx, cy, cz),
                          !.halfHeight = halfHeight, !.radius = radius,
                          !.resolved = Vec(cx, cy, cz), !.out0 = out]
    /\ ret' = IF Len(nodes) = 0 THEN FALSE ELSE ret
    /\ out' = ZeroVec
    /\ UNCHANGED <<gridVars, scratchVars, probeVars, ld, appVars>>

\* querySphere / queryCapsule up to the loop: the empty collider returns
\* false at once, else the locals are set up
QueryStart(kind, cx, cy, cz, halfHeight, radius) ==
    /\ q.pc = "idle" /\ q.n < MaxQueries
    /\ q' = [QInit EXCEPT !.pc = IF Len(nodes) = 0 THEN "idle" ELSE "loop",
                          !.n = q.n + 1, !.kind = kind, !.c = Vec(cx, cy, cz),
                          !.halfHeight = halfHeight, !.radius = radius,
                          !.resolved = Vec(cx, cy, cz), !.out0 = out]
    /\ ret' = IF Len(nodes) = 0 THEN FALSE ELSE ret
    /\ UNCHANGED <<gridVars, scratchVars, probeVars, out, ld, appVars>>

\* the resolver run at the position the query was called with
ResolvedAtStart ==
    resolveDeepestPenetration(q.kind, q.c.x, q.c.y, q.c.z, q.halfHeight, q.radius)

\* the resolver at the current candidate position of the query in progress
Resolved ==
    resolveDeepestPenetration(q.kind, q.resolved.x, q.resolved.y, q.resolved.z,
                              q.halfHeight, q.radius)

\* QueryIter with the push applied to the grid origin as well
QueryIterMovesGrid ==
    /\ q.pc = "loop" /\ q.iter < maxIterations
    /\ LET r == Resolved
           p == Project(r.push, q.numNormals, _constraintNormals)
       IN  /\ r.found
           /\ _push' = r.push
           /\ gridMin' = VAdd(gridMin, p)
           /\ q' = [q EXCEPT !.hadCollision = TRUE, !.resolved = VAdd(q.resolved, p),
                             !.total = VAdd(q.total, p), !.iter = q.iter + 1,
                             !.resolves = q.resolves + 1]
    /\ UNCHANGED <<numVoxels, voxelResolution, leafSize, treeDepth, nodes, leafData,
                   _constraintNormals, probeVars, out, ret, ld, appVars>>

\* QueryIter without the cap on the number of iterations
QueryIterUncapped ==
    /\ q.pc = "loop"
    /\ LET r == Resolved
           p == Project(r.push, q.numNormals, _constraintNormals)
           rec == RecordsNormal(r.push, q.numNormals)
       IN  /\ r.found
           /\ _push' = r.push
           /\ _constraintNormals' =
                  IF rec THEN [_constraintNormals EXCEPT ![q.numNormals + 1] = Normalized(r.push)]
                  ELSE _constraintNormals
           /\ q' = [q EXCEPT !.hadCollision = TRUE,
                             !.numNormals = IF rec THEN q.numNormals + 1 ELSE q.numNormals,
                             !.resolved = VAdd(q.resolved, p),
                             !.total = VAdd(q.total, p),
                             !.iter = q.iter + 1,
                             !.resolves = q.resolves + 1]
    /\ UNCHANGED <<gridVars, probeVars, out, ret, ld, appVars>>

\* one iteration of the loop that finds a penetration
QueryIter ==
    /\ q.pc = "loop" /\ q.iter < maxIterations
    /\ LET r == Resolved
           p == Project(r.push, q.numNormals, _constraintNormals)
           rec == RecordsNormal(r.push, q.numNormals)
       IN  /\ r.found
           /\ _push' = r.push
           /\ _constraintNormals' =
                  IF rec THEN [_constraintNormals EXCEPT ![q.numNormals + 1] = Normalized(r.push)]
                  ELSE _constraintNormals
           /\ q' = [q EXCEPT !.hadCollision = TRUE,
                             !.numNormals = IF rec THEN q.numNormals + 1 ELSE q.numNormals,
                             !.resolved = VAdd(q.resolved, p),
                             !.total = VAdd(q.total, p),
                             !.iter = q.iter + 1,
                             !.resolves = q.resolves + 1]
    /\ UNCHANGED <<gridVars, probeVars, out, ret, ld, appVars>>

\* QueryFinish with out written whatever the result
QueryFinishWritesAlways ==
    /\ q.pc = "loop"
    /\ q.iter >= maxIterations \/ ~Resolved.found
    /\ out' = q.total
    /\ ret' = (q.hadCollision /\ LenSq(q.total) > PENETRATION_EPSILON * PENETRATION_EPSILON)
    /\ q' = [q EXCEPT !.pc = "idle",
                      !.resolves = IF q.iter < maxIterations THEN q.resolves + 1 ELSE q.resolves]
    /\ UNCHANGED <<gridVars, scratchVars, probeVars, ld, appVars>>

\* QueryFinish with the push of the last iteration written to out
QueryFinishWritesLastPush ==
    /\ q.pc = "loop"
    /\ q.iter >= maxIterations \/ ~Resolved.found
    /\ LET hasSignificantPush ==
               q.hadCollision /\ LenSq(q.total) > PENETRATION_EPSILON * PENETRATION_EPSILON
       IN  /\ out' = IF hasSignificantPush THEN _push ELSE out
           /\ ret' = hasSignificantPush
    /\ q' = [q EXCEPT !.pc = "idle",
                      !.resolves = IF q.iter < maxIterations THEN q.resolves + 1 ELSE q.resolves]
    /\ UNCHANGED <<gridVars, scratchVars, probeVars, ld, appVars>>

\* leaving the loop (no penetration found, or maxIterations done) and the
\* return: out is written when the total push is significant
QueryFinish ==
    /\ q.pc = "loop"
    /\ q.iter >= maxIterations \/ ~Resolved.found
    /\ LET hasSignificantPush ==
               q.hadCollision /\ LenSq(q.total) > PENETRATION_EPSILON * PENETRATION_EPSILON
       IN  /\ out' = IF hasSignificantPush THEN q.total ELSE out
           /\ ret' = hasSignificantPush
    /\ q' = [q EXCEPT !.pc = "idle",
                      !.resolves = IF q.iter < maxIterations THEN q.resolves + 1 ELSE q.resolves]
    /\ UNCHANGED <<gridVars, scratchVars, probeVars, ld, appVars>>

\* querySphere / queryCapsule run from start to return on a collider whose
\* scratch is as constructed: what it returns and the total push it computes
RECURSIVE AloneLoop(_, _, _, _, _, _, _, _, _)
AloneLoop(kind, halfHeight, radius, resolved, total, had, normals, numNormals, iter) ==
    LET r == resolveDeepestPenetration(kind, resolved.x, resolved.y, resolved.z,
                                       halfHeight, radius)
        p == Project(r.push, numNormals, normals)
        rec == RecordsNormal(r.push, numNormals)
    IN  IF iter >= maxIterations \/ ~r.found
        THEN [ret |-> had /\ LenSq(total) > PENETRATION_EPSILON * PENETRATION_EPSILON,
              total |-> total]
        ELSE AloneLoop(kind, halfHeight, radius, VAdd(resolved, p), VAdd(total, p), TRUE,
                       IF rec THEN [normals EXCEPT ![numNormals + 1] = Normalized(r.push)]
                       ELSE normals,
                       IF rec THEN numNormals + 1 ELSE numNormals, iter + 1)

Alone(kind, c, halfHeight, radius) ==
    IF Len(nodes) = 0 THEN [ret |-> FALSE, total |-> ZeroVec]
    ELSE AloneLoop(kind, halfHeight, radius, c, ZeroVec, FALSE, FreshNormals, 0, 0)

---------------------------------------------------------------------------
(* SpecQuery: a caller making up to MaxQueries queries, one after the      *)
(* other, on an unloaded collider or on one of the named scenes            *)

Tenth == Unit \div 10

\* a position given in tenths of a world unit
At(a, b, c) == Vec(a * Tenth, b * Tenth, c * Tenth)

SphereRadius == 5 * Tenth

CapsuleRadius == 3 * Tenth

CapsuleHalfHeight == 5 * Tenth

\* sphere centres: above the origin voxel by 0.3, by exactly the radius, by
\* the radius less one and less two ticks; inside the origin voxel; in the
\* corner of floor and wall; off the corner of the origin voxel; inside the
\* grid away from the floor; outside the grid next to the wall
SphereCentres ==
    { At(5, 13, 5), At(5, 15, 5),
      Vec(5 * Tenth, 15 * Tenth - 1, 5 * Tenth), Vec(5 * Tenth, 15 * Tenth - 2, 5 * Tenth),
      At(5, 5, 5), At(13, 13, 25), At(12, 12, 12), At(65, 65, 65), At(-2, 25, 25) }

\* capsule centres: bottom cap 0.1 into the floor, clear of everything, side
\* 0.1 into the wall, in the corner of floor and wall
CapsuleCentres == { At(25, 17, 25), At(25, 30, 25), At(12, 30, 25), At(12, 17, 25) }

PointQueries == { At(5, 5, 5), At(15, 5, 5), At(-5, 5, 5) }

QueryScenes == [depth : {1}, seed : {-1, -2, -3, -4, -5, -6}]

\* the caller's out before its first query
OutInit == { ZeroVec, Vec(7, -3, 5) }

InitLoaded ==
    \E s \in QueryScenes :
        /\ src = s
        /\ nodes = Encode(s).nodes
        /\ leafData = Encode(s).leafData
        /\ treeDepth = s.depth

\* `nodes` empty: nothing was loaded into the arrays
InitUnloaded ==
    /\ src = NoSrc
    /\ nodes = <<>>
    /\ leafData = <<>>
    /\ treeDepth = 1

InitQuery ==
    /\ InitLoaded \/ InitUnloaded
    /\ numVoxels = Vec(CubeSize(1), CubeSize(1), CubeSize(1))
    /\ gridMin = ZeroVec /\ voxelResolution = Unit /\ leafSize = 4
    /\ _push = ZeroVec /\ _constraintNormals = FreshNormals
    /\ probe = NoProbe /\ probeRes = NoRes /\ gpu = NoGpu /\ pcall = NoCall
    /\ q = QInit /\ out \in OutInit /\ ret = FALSE
    /\ ld = LdIdle
    /\ mn = MnIdle /\ AppIdle

PointCall == \E c \in PointQueries : queryPoint(c.x, c.y, c.z)

SphereCall == \E c \in SphereCentres : QueryStart("sphere", c.x, c.y, c.z, 0, SphereRadius)

CapsuleCall ==
    \E c \in CapsuleCentres :
        QueryStart("capsule", c.x, c.y, c.z, CapsuleHalfHeight, CapsuleRadius)

\* the scenes by name
OneVoxel == [depth |-> 1, seed |-> -1]

Floor == [depth |-> 1, seed |-> -2]

FloorAndWall == [depth |-> 1, seed |-> -3]

AllSolid == [depth |-> 1, seed |-> -5]

Pocket == [depth |-> 1, seed |-> -6]

\* the face of the floor (y) and of the wall (x): one voxel from the origin
Face == gridMin.y + voxelResolution

\* spheres in the corner of floor and wall, centre outside both: equal and
\* unequal depths, deep, two ticks deep, on a voxel boundary in z
CornerCentres ==
    { At(13, 13, 25), At(12, 14, 25), At(14, 12, 25), At(11, 11, 25), At(13, 13, 30),
      Vec(10 * Tenth + 1, 10 * Tenth + 1, 25 * Tenth),
      Vec(15 * Tenth - 2, 15 * Tenth - 2, 25 * Tenth),
      Vec(15 * Tenth - 1, 13 * Tenth, 25 * Tenth) }

CornerCall ==
    /\ src = FloorAndWall
    /\ \E c \in CornerCentres : QueryStart("sphere", c.x, c.y, c.z, 0, SphereRadius)

\* spheres over the floor: mid-voxel, on the corner of four voxels, next to
\* the edge of the grid, centre on the face, one and two ticks deep
OverFloorCentres ==
    { At(25, 13, 25), At(20, 13, 30), At(2, 13, 2), At(25, 11, 25), At(25, 10, 25),
      Vec(25 * Tenth, 15 * Tenth - 1, 25 * Tenth),
      Vec(25 * Tenth, 15 * Tenth - 2, 25 * Tenth) }

OverFloorCall ==
    /\ src = Floor
    /\ \E c \in OverFloorCentres : QueryStart("sphere", c.x, c.y, c.z, 0, SphereRadius)

BigRadius == 12 * Tenth

\* spheres of two radii over the top face of the one voxel: over its middle,
\* over its far corner, off-centre, centre on the face
OverVoxelCentres == { At(5, 13, 5), At(10, 12, 10), At(3, 11, 8), At(5, 10, 5) }

OverVoxelCall ==
    /\ src = OneVoxel
    /\ \E c \in OverVoxelCentres, r \in {SphereRadius, BigRadius} :
           QueryStart("sphere", c.x, c.y, c.z, 0, r)

\* capsules standing on the one voxel: bottom cap 0.1 and 0.2 deep, one and
\* two ticks deep, touching, over the corner of the voxel
StandingCentres ==
    { At(5, 17, 5), At(5, 16, 5), At(5, 18, 5), At(10, 17, 0),
      Vec(5 * Tenth, 18 * Tenth - 1, 5 * Tenth), Vec(5 * Tenth, 18 * Tenth - 2, 5 * Tenth) }

StandingCall ==
    /\ src = OneVoxel
    /\ \E c \in StandingCentres :
           QueryStart("capsule", c.x, c.y, c.z, CapsuleHalfHeight, CapsuleRadius)

PocketRadius == 6 * Tenth

\* spheres of radius 0.6 in the pocket: 0.3 into the wall, next to the upper
\* edge of the block and just under the ceiling, at three heights
PocketCentres ==
    { Vec(13 * Tenth, 141 * (Tenth \div 10), 25 * Tenth),
      Vec(13 * Tenth, 140 * (Tenth \div 10), 25 * Tenth),
      Vec(13 * Tenth, 135 * (Tenth \div 10), 25 * Tenth) }

PocketCall ==
    /\ src = Pocket
    /\ \E c \in PocketCentres : QueryStart("sphere", c.x, c.y, c.z, 0, PocketRadius)

NextQuery ==
    \/ PointCall \/ SphereCall \/ CapsuleCall
    \/ CornerCall \/ OverFloorCall \/ OverVoxelCall \/ StandingCall \/ PocketCall
    \/ QueryIter \/ QueryFinish

SpecQuery == InitQuery /\ [][NextQuery]_vars

\* the same caller with the second copy of the class, which has queryPoint and
\* querySphere
OtherSphereCall ==
    \E c \in SphereCentres : QueryStart("sphereOther", c.x, c.y, c.z, 0, SphereRadius)

NextQueryOther == PointCall \/ OtherSphereCall \/ QueryIter \/ QueryFinish

SpecQueryOther == InitQuery /\ [][NextQueryOther]_vars

---------------------------------------------------------------------------
(* SpecLoad: VoxelCollider.load, one step per await                        *)

MaxNodeCount == 2

MaxBufWords == 4

\* the fields before any collider is constructed
NoGrid ==
    /\ gridMin = ZeroVec /\ numVoxels = ZeroVec /\ voxelResolution = 0
    /\ leafSize = 0 /\ treeDepth = 0 /\ nodes = <<>> /\ leafData = <<>>

\* what metaResponse.json() may yield: the counts written in the file
Metadatas == [nodeCount : 0 .. MaxNodeCount, leafDataCount : {0, 2, 4}, treeDepth : {1, 2}]

\* the i-th u32 of the binary file (0-based), all different
BufWord(i) == Word(0, 100 + i)

\* new Uint32Array(buffer) of a buffer of n whole words
View(n) == [i \in 1 .. n |-> BufWord(i - 1)]

\* Uint32Array.prototype.slice(begin, end): both ends are clamped to the length
Slice(view, begin, end) ==
    SubSeq(view, Min(begin, Len(view)) + 1, Min(end, Len(view)))

\* Math.round((gridBounds.max - gridBounds.min) / res) for the bounds of the
\* file: min 0 and max the cube of a tree of depth d, res one unit
NumVoxelsOf(d) == RDiv(CubeSize(d) * Unit - 0, Unit)

Responses == {"ok", "notok", "neterr"}

InitLoad ==
    /\ NoGrid
    /\ _push = ZeroVec /\ _constraintNormals = FreshNormals
    /\ src = NoSrc /\ probe = NoProbe /\ probeRes = NoRes /\ gpu = NoGpu /\ pcall = NoCall
    /\ q = QInit /\ out = ZeroVec /\ ret = FALSE
    /\ ld = LdIdle
    /\ mn = MnIdle /\ AppIdle

LoadRest == UNCHANGED <<scratchVars, probeVars, queryVars, appVars>>

\* load(jsonUrl) up to `await fetch(jsonUrl)`
LoadStart ==
    /\ ld.pc = "idle"
    /\ ld' = [ld EXCEPT !.pc = "fetchMeta"]
    /\ UNCHANGED gridVars /\ LoadRest

\* the metadata fetch settles; `if (!metaResponse.ok) throw`
MetaResponse ==
    /\ ld.pc = "fetchMeta"
    /\ \E r \in Responses :
           ld' = [ld EXCEPT !.meta = r, !.pc = IF r = "ok" THEN "json" ELSE "rejected"]
    /\ UNCHANGED gridVars /\ LoadRest

\* `await metaResponse.json()`, then up to `await fetch(binUrl)`
MetaJson ==
    /\ ld.pc = "json"
    /\ \E m \in Metadatas :
           ld' = [ld EXCEPT !.nodeCount = m.nodeCount, !.leafDataCount = m.leafDataCount,
                            !.treeDepth = m.treeDepth, !.pc = "fetchBin"]
    /\ UNCHANGED gridVars /\ LoadRest

\* the body of the metadata response is no JSON: json() rejects
MetaJsonInvalid ==
    /\ ld.pc = "json"
    /\ ld' = [ld EXCEPT !.pc = "rejected"]
    /\ UNCHANGED gridVars /\ LoadRest

\* BinResponse with the test of binResponse.ok left out
BinResponseUnchecked ==
    /\ ld.pc = "fetchBin"
    /\ \E r \in Responses :
           ld' = [ld EXCEPT !.bin = r, !.pc = IF r = "neterr" THEN "rejected" ELSE "buffer"]
    /\ UNCHANGED gridVars /\ LoadRest

\* the binary fetch settles; `if (!binResponse.ok) throw`
BinResponse ==
    /\ ld.pc = "fetchBin"
    /\ \E r \in Responses :
           ld' = [ld EXCEPT !.bin = r, !.pc = IF r = "ok" THEN "buffer" ELSE "rejected"]
    /\ UNCHANGED gridVars /\ LoadRest

\* `await binResponse.arrayBuffer()` with a buffer of n whole words that wraps
\* as a Uint32Array, the two slices and the constructor (gridBounds of the
\* metadata: min 0, max the cube of the tree, at a resolution of one unit)
BinBuffer ==
    /\ ld.pc = "buffer"
    /\ \E n \in 0 .. MaxBufWords :
           /\ ld' = [ld EXCEPT !.words = n, !.pc = "resolved"]
           /\ nodes' = Slice(View(n), 0, ld.nodeCount)
           /\ leafData' = Slice(View(n), ld.nodeCount, ld.nodeCount + ld.leafDataCount)
    /\ gridMin' = ZeroVec
    /\ voxelResolution' = Unit
    /\ numVoxels' = Vec(NumVoxelsOf(ld.treeDepth), NumVoxelsOf(ld.treeDepth),
                        NumVoxelsOf(ld.treeDepth))
    /\ leafSize' = 4
    /\ treeDepth' = ld.treeDepth
    /\ LoadRest

\* a buffer whose byte length is no multiple of 4: new Uint32Array throws
BinBufferRagged ==
    /\ ld.pc = "buffer"
    /\ ld' = [ld EXCEPT !.pc = "rejected"]
    /\ UNCHANGED gridVars /\ LoadRest

NextLoad ==
    \/ LoadStart \/ MetaResponse \/ MetaJson \/ MetaJsonInvalid
    \/ BinResponse \/ BinBuffer \/ BinBufferRagged

SpecLoad == InitLoad /\ [][NextLoad]_vars

---------------------------------------------------------------------------
(* SpecMain: main() of the viewer, which starts the three loads and builds *)
(* the Viewer; the voxel load runs as in SpecLoad, one step per await      *)

InitMain ==
    /\ NoGrid
    /\ _push = ZeroVec /\ _constraintNormals = FreshNormals
    /\ src = NoSrc /\ probe = NoProbe /\ probeRes = NoRes /\ gpu = NoGpu /\ pcall = NoCall
    /\ q = QInit /\ out = ZeroVec /\ ret = FALSE
    /\ ld = LdIdle
    /\ \E v \in BOOLEAN, s \in BOOLEAN :
           mn = [MnIdle EXCEPT !.pc = "createApp", !.voxelUrl = v, !.skyboxUrl = s]
    /\ AppIdle

MainRest == UNCHANGED <<gridVars, scratchVars, probeVars, queryVars, rm, fps, vw>>

\* `await createApp(canvas, config)` rejects: so does main
CreateAppRejects ==
    /\ mn.pc = "createApp"
    /\ mn' = [mn EXCEPT !.pc = "rejected"]
    /\ UNCHANGED ld /\ MainRest

\* createApp resolved: main runs from there to its return without another
\* await.  loadGsplat is called; loadSkybox and VoxelCollider.load are called
\* when their url is set (load runs up to its first await); the Viewer is
\* constructed from the three promises and main resolves with it
MainBody ==
    /\ mn.pc = "createApp"
    /\ mn' = [mn EXCEPT !.pc = "resolved", !.gsplat = "pending",
                        !.skybox = IF mn.skyboxUrl THEN "pending" ELSE "none",
                        !.voxel = IF mn.voxelUrl THEN "pending" ELSE "none",
                        !.viewer = TRUE]
    /\ ld' = IF mn.voxelUrl THEN [ld EXCEPT !.pc = "fetchMeta"] ELSE ld
    /\ MainRest

GsplatSettles ==
    /\ mn.gsplat = "pending"
    /\ \E r \in {"resolved", "rejected"} : mn' = [mn EXCEPT !.gsplat = r]
    /\ UNCHANGED ld /\ MainRest

SkyboxSettles ==
    /\ mn.skybox = "pending"
    /\ \E r \in {"resolved", "rejected"} : mn' = [mn EXCEPT !.skybox = r]
    /\ UNCHANGED ld /\ MainRest

\* VoxelCatch without the handler: the rejection of load is the rejection of
\* voxelLoad
VoxelNoCatch ==
    /\ mn.voxel = "pending" /\ ld.pc = "rejected"
    /\ mn' = [mn EXCEPT !.voxel = "rejected"]
    /\ UNCHANGED ld /\ MainRest

\* .catch((err) => { console.warn(...); return null; }) on a load that rejected
VoxelCatch ==
    /\ mn.voxel = "pending" /\ ld.pc = "rejected"
    /\ mn' = [mn EXCEPT !.voxel = "null"]
    /\ UNCHANGED ld /\ MainRest

\* the load resolved: .catch passes the collider through
VoxelPass ==
    /\ mn.voxel = "pending" /\ ld.pc = "resolved"
    /\ mn' = [mn EXCEPT !.voxel = "collider"]
    /\ UNCHANGED ld /\ MainRest

NextMain ==
    \/ CreateAppRejects \/ MainBody \/ GsplatSettles \/ SkyboxSettles
    \/ MetaResponse \/ MetaJson \/ MetaJsonInvalid
    \/ BinResponse \/ BinBuffer \/ BinBufferRagged
    \/ VoxelCatch \/ VoxelPass

SpecMain == InitMain /\ [][NextMain]_vars

---------------------------------------------------------------------------
(* The ray march of the overlay shader: main of the WGSL kernel, for one   *)
(* pixel.  Lengths are in voxels (voxelResolution = 1, gridMin = 0).  A    *)
(* ray has its origin ro in half voxels and a direction rd with components *)
(* 1, 2, -1 or -2, not normalised; the ray parameter t is then a multiple  *)
(* of a quarter and is held as T = 4 t, so that the comparisons of the     *)
(* kernel are exact.  The 0.0001 added to an entry time moves the entry    *)
(* point off a cell boundary, in the direction of the ray.                 *)

\* const MAX_STEPS: u32 = 512u
MAX_STEPS == 512

\* (bound - ro) / rd on one axis, for the plane at voxel coordinate bound
PlaneT(bound, ro, rd) ==
    IF rd > 0 THEN (2 * (2 * bound - ro)) \div rd ELSE (2 * (ro - 2 * bound)) \div (-rd)

intersectAABB(ray, bmin, bmax) ==
    LET tmin(a) == Min(PlaneT(bmin[a], ray.ro[a], ray.rd[a]), PlaneT(bmax[a], ray.ro[a], ray.rd[a]))
        tmax(a) == Max(PlaneT(bmin[a], ray.ro[a], ray.rd[a]), PlaneT(bmax[a], ray.ro[a], ray.rd[a]))
    IN  [tNear |-> Max(Max(tmin("x"), tmin("y")), tmin("z")),
         tFar |-> Min(Min(tmax("x"), tmax("y")), tmax("z"))]

\* numBlocksX, numBlocksY, numBlocksZ: numVoxels / leafSize in u32
numBlocks == [a \in Axes |-> numVoxels[a] \div leafSize]

\* the setup of a DDA over cells of `size` voxels counted from `origin`, n[a]
\* cells on axis a, entered at time T: the cell of the entry point clamped
\* into 0 .. n[a] - 1, and the time of the next cell boundary on each axis
DdaSetup(ray, T, origin, size, n) ==
    LET entry(a) ==
            (2 * (2 * ray.ro[a] + ray.rd[a] * T) + (IF ray.rd[a] > 0 THEN 1 ELSE -1)
             - 8 * origin[a]) \div (8 * size)
        c == [a \in Axes |-> Min(Max(entry(a), 0), n[a] - 1)]
    IN  [c |-> c,
         t |-> [a \in Axes |->
                   PlaneT(origin[a] + (c[a] + (IF ray.rd[a] >= 0 THEN 1 ELSE 0)) * size,
                          ray.ro[a], ray.rd[a])]]

\* one step of a DDA: the axis whose boundary comes first (x only if before
\* both others, else y if before z, else z), the cell moved by stepX, stepY or
\* stepZ and tMax advanced by tDelta on that axis
DdaStep(ray, c, t, size) ==
    LET a == IF t.x < t.y /\ t.x < t.z THEN "x" ELSE IF t.y < t.z THEN "y" ELSE "z"
    IN  [axis |-> a,
         c |-> [c EXCEPT ![a] = @ + (IF ray.rd[a] >= 0 THEN 1 ELSE -1)],
         t |-> [t EXCEPT ![a] = @ + (4 * size) \div Abs(ray.rd[a])]]

\* CellMin with the cell counted from the block itself
CellMinUnaligned(b0, level) == b0

\* cellXMin = bx & cellMask for a cell of 1u << level blocks, level < 31
CellMin(b0, level) == b0 - (b0 % Pow2(level))

\* whether block coordinate b is within the cell of the skip that began at
\* b0 >= 0: not (b < cellXMin || b >= cellXMin + cellBlocks).  A negative
\* level stands for 2^32 + level and the shift is by 32 + level: by 31 the
\* i32 cellBlocks is -2^31 and every b is >= cellXMin + cellBlocks; by less,
\* the cell is the 2^(32 + level) blocks from 0
InCell(b, b0, level) ==
    IF level >= 0 THEN b >= CellMin(b0, level) /\ b < CellMin(b0, level) + Pow2(level)
    ELSE IF level = -1 THEN FALSE
    ELSE b >= 0

\* the skip loop: for (skip = 0; skip < 128; skip++), with the blocks it
\* passed through before it broke
RECURSIVE SkipLoop(_, _, _, _, _, _, _)
SkipLoop(ray, c, t, b0, level, skip, passed) ==
    LET d == DdaStep(ray, c, t, leafSize)
    IN  IF skip >= 128 THEN [c |-> c, t |-> t, steps |-> skip, passed |-> passed]
        ELSE IF ~InCell(d.c[d.axis], b0[d.axis], level)
        THEN [c |-> d.c, t |-> d.t, steps |-> skip + 1, passed |-> passed]
        ELSE SkipLoop(ray, d.c, d.t, b0, level, skip + 1, Append(passed, d.c))

\* VoxelLoop with a step out of the block turned back into it
RECURSIVE VoxelLoopTurnsBack(_, _, _, _, _, _, _)
VoxelLoopTurnsBack(ray, v, t, blockResult, oobLo, oobHi, vStep) ==
    LET d == DdaStep(ray, v, t, 1)
    IN  IF vStep >= 12 THEN [vEnd |-> "cap", vSteps |-> vStep]
        ELSE IF GpuVoxelSolid(blockResult, v.x, v.y, v.z, oobLo, oobHi)
        THEN [vEnd |-> "hit", vSteps |-> vStep + 1]
        ELSE VoxelLoopTurnsBack(ray, IF d.c[d.axis] < 0 \/ d.c[d.axis] >= leafSize THEN v ELSE d.c,
                                d.t, blockResult, oobLo, oobHi, vStep + 1)

\* the voxel loop: for (vStep = 0; vStep < 12; vStep++), ended by a solid
\* voxel ("hit"), by a step out of the block ("exit") or by the cap ("cap")
RECURSIVE VoxelLoop(_, _, _, _, _, _, _)
VoxelLoop(ray, v, t, blockResult, oobLo, oobHi, vStep) ==
    LET d == DdaStep(ray, v, t, 1)
    IN  IF vStep >= 12 THEN [vEnd |-> "cap", vSteps |-> vStep]
        ELSE IF GpuVoxelSolid(blockResult, v.x, v.y, v.z, oobLo, oobHi)
        THEN [vEnd |-> "hit", vSteps |-> vStep + 1]
        ELSE IF d.c[d.axis] < 0 \/ d.c[d.axis] >= leafSize
        THEN [vEnd |-> "exit", vSteps |-> vStep + 1]
        ELSE VoxelLoop(ray, d.c, d.t, blockResult, oobLo, oobHi, vStep + 1)

\* the rays: origins before, beside, inside and beyond the grid
Rays ==
    [ro : {Vec(-3, 1, 3), Vec(5, -3, 2), Vec(9, 9, 9), Vec(19, 13, 35)},
     rd : [x : {-2, -1, 1, 2}, y : {-2, -1, 1, 2}, z : {-2, -1, 1, 2}]]

\* main up to the block loop: a ray that misses the grid box stores nothing,
\* else the block DDA is set up at the entry point
MarchStart ==
    /\ rm.pc = "idle"
    /\ \E ray \in Rays :
           LET gridHit == intersectAABB(ray, ZeroVec, numVoxels)
               dda == DdaSetup(ray, Max(gridHit.tNear, 0), ZeroVec, leafSize, numBlocks)
           IN  rm' = IF gridHit.tNear > gridHit.tFar THEN [RmIdle EXCEPT !.pc = "miss", !.ray = ray]
                     ELSE [RmIdle EXCEPT !.pc = "loop", !.ray = ray, !.b = dda.c, !.t = dda.t]
    /\ UNCHANGED <<gridVars, scratchVars, probeVars, queryVars, ld, mn, fps, vw>>

\* whether block b is outside the range the block loop stays in
OutOfBlocks(b) == \E a \in Axes : b[a] < 0 \/ b[a] >= numBlocks[a]

\* one iteration of the block loop of main: queryBlock on the current block,
\* then the skip loop over an empty cell found above level 0, or the voxel
\* loop within a block that is not empty followed by one block step; then the
\* bounds test and the step count.  A walk that does not come back ends the
\* invocation at "spinning"
MarchStep ==
    /\ rm.pc = "loop"
    /\ \E oobN \in IF queryBlock(rm.b.x, rm.b.y, rm.b.z, ZeroWord).past THEN OobWords(nodes)
                    ELSE {ZeroWord} :
         LET qb == queryBlock(rm.b.x, rm.b.y, rm.b.z, oobN)
             blockOrigin == [a \in Axes |-> rm.b[a] * leafSize]
             oobL == IF LeafPast(qb.result) THEN OobWords(leafData) ELSE {ZeroWord}
             at == [rm EXCEPT !.step = @ + 1, !.totalWork = @ + 1, !.walk = qb.reads,
                              !.skipped = FALSE, !.passed = <<>>, !.skipSteps = 0,
                              !.vEnd = "none", !.vSteps = 0]
             done(r) == [r EXCEPT !.pc = IF OutOfBlocks(r.b) \/ r.step >= MAX_STEPS
                                         THEN "miss" ELSE "loop"]
         IN  IF qb.result = Spinning.result
             THEN rm' = [at EXCEPT !.pc = "spinning"]
             ELSE IF qb.result = 0 /\ qb.emptyLevel # 0
             THEN LET sk == SkipLoop(rm.ray, rm.b, rm.t, rm.b, qb.emptyLevel, 0, <<>>)
                  IN  rm' = done([at EXCEPT !.b = sk.c, !.t = sk.t, !.skipped = TRUE,
                                            !.skipLevel = qb.emptyLevel, !.skipFrom = rm.b,
                                            !.passed = sk.passed, !.skipSteps = sk.steps,
                                            !.totalWork = @ + sk.steps])
             ELSE \E oobLo \in oobL, oobHi \in oobL :
                    LET bHit == intersectAABB(rm.ray, blockOrigin,
                                              [a \in Axes |-> blockOrigin[a] + leafSize])
                        vdda == DdaSetup(rm.ray, Max(bHit.tNear, 0), blockOrigin, 1,
                                         [a \in Axes |-> leafSize])
                        vl == IF qb.result = 0 THEN [vEnd |-> "none", vSteps |-> 0]
                              ELSE VoxelLoop(rm.ray, vdda.c, vdda.t, qb.result, oobLo, oobHi, 0)
                        d == DdaStep(rm.ray, rm.b, rm.t, leafSize)
                        seen == [at EXCEPT !.vEnd = vl.vEnd, !.vSteps = vl.vSteps,
                                           !.totalWork = @ + vl.vSteps]
                    IN  rm' = IF vl.vEnd = "hit" THEN [seen EXCEPT !.pc = "hit"]
                              ELSE done([seen EXCEPT !.b = d.c, !.t = d.t])
    /\ UNCHANGED <<gridVars, scratchVars, probeVars, queryVars, ld, mn, fps, vw>>

\* arrays that no writer produces, with their depth: a root that is its own
\* child, a root whose children lie past the end, a root without the child
\* asked for under depth 0, and a full root whose first child is itself
CorruptGrids ==
    { [nodes |-> << Word(1, 0) >>, treeDepth |-> 0],
      [nodes |-> << Word(170, 2) >>, treeDepth |-> 1],
      [nodes |-> << Word(254, 1) >>, treeDepth |-> 0],
      [nodes |-> << Word(255, 0) >>, treeDepth |-> 2] }

\* the extents given with an encoded grid: the whole cube, or two voxels less
\* on x (the extents are round((max - min) / resolution) of the writer's box)
MarchExtents(depth) ==
    {Vec(CubeSize(depth), CubeSize(depth), CubeSize(depth))}
    \cup (IF depth >= 1 THEN {Vec(CubeSize(depth) - 2, CubeSize(depth), CubeSize(depth))}
          ELSE {})

InitMarch ==
    /\ \/ \E s \in Sources :
              /\ src = s
              /\ nodes = Encode(s).nodes
              /\ leafData = Encode(s).leafData
              /\ treeDepth = s.depth
              /\ numVoxels \in MarchExtents(s.depth)
       \/ \E g \in CorruptGrids :
              /\ src = NoSrc
              /\ nodes = g.nodes
              /\ leafData = <<>>
              /\ treeDepth = g.treeDepth
              /\ numVoxels = Vec(CubeSize(g.treeDepth), CubeSize(g.treeDepth),
                                 CubeSize(g.treeDepth))
    /\ gridMin = ZeroVec /\ voxelResolution = 1 /\ leafSize = 4
    /\ probe = NoProbe /\ probeRes = NoRes /\ gpu = NoGpu /\ pcall = NoCall
    /\ RestIdle

NextMarch == MarchStart \/ MarchStep

SpecMarch == InitMarch /\ [][NextMarch]_vars

---------------------------------------------------------------------------
(* FpsController: onEnter, goto and update on a collider loaded with the   *)
(* ledge.  Positions and velocities are in ticks and ticks per second; the *)
(* yaw stays 0, so that right is +X and forward is -Z.  PlayCanvas space   *)
(* has X and Y negated against voxel space: the slab's walking surface is  *)
(* at PlayCanvas y = -4 and it ends at PlayCanvas x = -2.                   *)

MaxUpdates == 4

capsuleHeight == 18 * Tenth

capsuleRadius == 3 * Tenth

eyeHeight == 16 * Tenth

gravity == 98 * Tenth

jumpSpeed == 5 * Unit

Ledge == [depth |-> 1, seed |-> -7]

\* deltaTime: a tenth of a second
DeltaTimes == {Tenth}

\* inputFrame.read().move: a step of 0.5 to the right or none, jump or not
Moves == [right : {0, 5 * Tenth}, up : {0, 1}, forward : {0}]

\* damp(moveDamping, deltaTime): a factor in (0, 1]
MoveLerps == {Unit \div 2, Unit}

\* camera.position of onEnter and goto: over the slab at its end, 0.05 above
\* standing height; over the slab further in; beyond the end of the slab
Cameras ==
    { Vec(-20 * Tenth, -235 * (Tenth \div 10), 25 * Tenth),
      Vec(-30 * Tenth, -20 * Tenth, 25 * Tenth),
      Vec(-10 * Tenth, -20 * Tenth, 25 * Tenth) }

\* math.lerp
lerp(a, b, alpha) == a + ((b - a) * alpha) \div Unit

\* onEnter(camera) and goto(camera) write the same fields
Teleported(camera, method) ==
    [fps EXCEPT !._position = camera, !._targetPosition = camera, !._velocityY = 0,
                !._onGround = FALSE, !.last = method, !.pushedUp = FALSE,
                !.jumped = FALSE, !.midAir = FALSE]

onEnter ==
    /\ fps.pc = "idle"
    /\ \E camera \in Cameras : fps' = Teleported(camera, "onEnter")
    /\ UNCHANGED <<gridVars, scratchVars, probeVars, queryVars, ld, mn, rm, vw>>

goto ==
    /\ fps.pc = "idle"
    /\ \E camera \in Cameras : fps' = Teleported(camera, "goto")
    /\ UNCHANGED <<gridVars, scratchVars, probeVars, queryVars, ld, mn, rm, vw>>

\* the call of queryCapsule of _resolveCapsuleCollision(eyePos, ..), up to the
\* loop of the query: the capsule centre in voxel space, X and Y negated
CapsuleQueryAt(eyePos) ==
    LET capsuleCenterPCY == eyePos.y - eyeHeight + capsuleHeight \div 2
        halfHeight == capsuleHeight \div 2 - capsuleRadius
        c == Vec(-eyePos.x, -capsuleCenterPCY, eyePos.z)
    IN  [QInit EXCEPT !.pc = IF Len(nodes) = 0 THEN "idle" ELSE "loop", !.kind = "capsule",
                      !.c = c, !.halfHeight = halfHeight, !.radius = capsuleRadius,
                      !.resolved = c, !.out0 = out]

\* eyePos after _resolveCapsuleCollision has applied pushOut, if the query
\* returned true
Pushed(eyePos) ==
    IF ret THEN Vec(eyePos.x - out.x, eyePos.y - out.y, eyePos.z + out.z) ELSE eyePos

\* update(deltaTime, inputFrame, camera) down to the capsule query on the
\* target position: the target moves by the input, a jump begins if asked
\* for on the ground, gravity acts.  Without a collider the rest of update
\* follows at once
UpdateStart ==
    /\ fps.pc = "idle" /\ q.pc = "idle" /\ fps.updates < MaxUpdates
    /\ \E deltaTime \in DeltaTimes, move \in Moves, moveLerp \in MoveLerps :
         LET jump == move.up > 0 /\ fps._onGround
             moved == [fps._targetPosition EXCEPT !.x = @ + move.right, !.z = @ - move.forward]
             v1 == (IF jump THEN jumpSpeed ELSE fps._velocityY) - (gravity * deltaTime) \div Unit
             fallen == [moved EXCEPT !.y = @ + (v1 * deltaTime) \div Unit]
             begun == [fps EXCEPT !._targetPosition = fallen, !._velocityY = v1,
                                  !._onGround = IF jump THEN FALSE ELSE @,
                                  !.moveLerp = moveLerp, !.jumped = jump, !.pushedUp = FALSE,
                                  !.midAir = ~(fps.last = "update" /\ fps.pushedUp)]
         IN  IF fps.collider
             THEN /\ fps' = [begun EXCEPT !.pc = "target"]
                  /\ q' = CapsuleQueryAt(fallen)
                  /\ ret' = IF Len(nodes) = 0 THEN FALSE ELSE ret
             ELSE /\ fps' = [begun EXCEPT !.updates = @ + 1, !.last = "update",
                                          !._position = Vec(lerp(fps._position.x, fallen.x, moveLerp),
                                                            fallen.y,
                                                            lerp(fps._position.z, fallen.z, moveLerp))]
                  /\ UNCHANGED <<q, ret>>
    /\ UNCHANGED <<gridVars, scratchVars, probeVars, out, ld, mn, rm, vw>>

\* update from the return of the query on the target position to the query
\* on the smoothed position: the push is applied to the target, a push
\* upward while falling stops the fall and sets _onGround, a push downward
\* while rising stops the rise; the position follows the target
UpdateTarget ==
    /\ fps.pc = "target" /\ q.pc = "idle"
    /\ LET pushPCY == -out.y
           ground == ret /\ pushPCY > 0 /\ fps._velocityY < 0
           ceiling == ret /\ pushPCY < 0 /\ fps._velocityY > 0
           target == Pushed(fps._targetPosition)
           smoothed == Vec(lerp(fps._position.x, target.x, fps.moveLerp), target.y,
                           lerp(fps._position.z, target.z, fps.moveLerp))
       IN  /\ fps' = [fps EXCEPT !.pc = "position", !._targetPosition = target,
                                 !._position = smoothed,
                                 !._velocityY = IF ground \/ ceiling THEN 0 ELSE @,
                                 !._onGround = IF ground THEN TRUE ELSE @,
                                 !.pushedUp = ground]
           /\ q' = CapsuleQueryAt(smoothed)
           /\ ret' = IF Len(nodes) = 0 THEN FALSE ELSE ret
    /\ UNCHANGED <<gridVars, scratchVars, probeVars, out, ld, mn, rm, vw>>

\* update from the return of the query on the smoothed position to its end
UpdateEnd ==
    /\ fps.pc = "position" /\ q.pc = "idle"
    /\ fps' = [fps EXCEPT !.pc = "idle", !._position = Pushed(fps._position),
                          !.updates = @ + 1, !.last = "update"]
    /\ UNCHANGED <<gridVars, scratchVars, probeVars, queryVars, ld, mn, rm, vw>>

InitFps ==
    /\ src = Ledge
    /\ nodes = Encode(Ledge).nodes
    /\ leafData = Encode(Ledge).leafData
    /\ treeDepth = Ledge.depth
    /\ numVoxels = Vec(CubeSize(1), CubeSize(1), CubeSize(1))
    /\ gridMin = ZeroVec /\ voxelResolution = Unit /\ leafSize = 4
    /\ _push = ZeroVec /\ _constraintNormals = FreshNormals
    /\ probe = NoProbe /\ probeRes = NoRes /\ gpu = NoGpu /\ pcall = NoCall
    /\ q = QInit /\ out = ZeroVec /\ ret = FALSE
    /\ ld = LdIdle /\ mn = MnIdle /\ rm = RmIdle /\ vw = VwNew
    /\ \E c \in BOOLEAN : fps = [FpsNew EXCEPT !.collider = c]

NextFps ==
    \/ onEnter \/ goto
    \/ UpdateStart \/ UpdateTarget \/ UpdateEnd
    \/ QueryIter \/ QueryFinish

SpecFps == InitFps /\ [][NextFps]_vars

---------------------------------------------------------------------------
(* The Viewer's render gate: the 'framerender' handler of the constructor, *)
(* the two loading paths that make the viewer ready, and what else writes  *)
(* app.renderNextFrame.  The camera's world and projection matrices are    *)
(* one small number; nearlyEquals is equality on it.                       *)

\* the camera transforms: 0 is the identity prevWorld and prevProj start as
Worlds == {0, 1, 2}

\* the 'resizecanvas' handler, updateHorizontalFov
ResizeCanvas ==
    /\ vw.pc = "running"
    /\ vw' = [vw EXCEPT !.renderNextFrame = TRUE, !.last = "resizecanvas"]
    /\ UNCHANGED <<gridVars, scratchVars, probeVars, queryVars, ld, mn, rm, fps>>

\* the camera entity is given another transform (applyCamera)
CameraMoves ==
    /\ vw.pc = "running"
    /\ \E w \in Worlds \ {vw.world} : vw' = [vw EXCEPT !.world = w, !.last = "applyCamera"]
    /\ UNCHANGED <<gridVars, scratchVars, probeVars, queryVars, ld, mn, rm, fps>>

\* Promise.all([gsplatLoad, skyboxLoad]).then: with a gsplat instance the
\* sorter's 'updated' is listened to, if there is a sorter; without one
\* (unified rendering) forceRenderNextFrame is set and 'frame:ready' is
\* listened to
LoadsResolved ==
    /\ vw.pc = "running" /\ vw.path = "none"
    /\ \/ \E sorter \in BOOLEAN :
              vw' = [vw EXCEPT !.path = "sorter", !.listening = sorter, !.last = "then"]
       \/ vw' = [vw EXCEPT !.path = "unified", !.forceRenderNextFrame = TRUE,
                           !.listening = TRUE, !.last = "then"]
    /\ UNCHANGED <<gridVars, scratchVars, probeVars, queryVars, ld, mn, rm, fps>>

\* the handler of the sorter's 'updated'
SorterUpdated ==
    /\ vw.path = "sorter" /\ vw.listening
    /\ vw' = [vw EXCEPT !.renderNextFrame = TRUE, !.readyToRender = TRUE, !.last = "updated"]
    /\ UNCHANGED <<gridVars, scratchVars, probeVars, queryVars, ld, mn, rm, fps>>

\* readyHandler, the handler of 'frame:ready' of the unified path
FrameReady ==
    /\ vw.path = "unified" /\ vw.listening
    /\ \E ready \in BOOLEAN, loading \in {0, 1} :
           vw' = IF ready /\ loading = 0
                 THEN [vw EXCEPT !.listening = FALSE, !.readyToRender = TRUE,
                                 !.last = "frame:ready"]
                 ELSE [vw EXCEPT !.last = "frame:ready"]
    /\ UNCHANGED <<gridVars, scratchVars, probeVars, queryVars, ld, mn, rm, fps>>

\* the 'framerender' handler
FrameRender ==
    /\ vw.pc = "running"
    /\ LET changed == IF ~vw.renderNextFrame /\ (vw.ministats \/ vw.world # vw.prevWorld)
                      THEN TRUE ELSE vw.renderNextFrame
           suppressed == IF ~vw.readyToRender THEN FALSE ELSE changed
           forced == IF vw.forceRenderNextFrame THEN TRUE ELSE suppressed
       IN  vw' = [vw EXCEPT !.renderNextFrame = forced,
                            !.prevWorld = IF forced THEN vw.world ELSE @,
                            !.last = "framerender"]
    /\ UNCHANGED <<gridVars, scratchVars, probeVars, queryVars, ld, mn, rm, fps>>

\* the application, with autoRender off, renders the frame asked for and
\* clears renderNextFrame
FrameRendered ==
    /\ vw.last = "framerender" /\ vw.renderNextFrame
    /\ vw' = [vw EXCEPT !.renderNextFrame = FALSE, !.last = "render"]
    /\ UNCHANGED <<gridVars, scratchVars, probeVars, queryVars, ld, mn, rm, fps>>

\* the Viewer as its constructor leaves it: updateHorizontalFov has asked for
\* a frame, nothing is loaded
InitViewer ==
    /\ src = NoSrc /\ nodes = <<>> /\ leafData = <<>> /\ treeDepth = 1
    /\ numVoxels = Vec(CubeSize(1), CubeSize(1), CubeSize(1))
    /\ gridMin = ZeroVec /\ voxelResolution = Unit /\ leafSize = 4
    /\ probe = NoProbe /\ probeRes = NoRes /\ gpu = NoGpu /\ pcall = NoCall
    /\ _push = ZeroVec /\ _constraintNormals = FreshNormals
    /\ q = QInit /\ out = ZeroVec /\ ret = FALSE
    /\ ld = LdIdle /\ mn = MnIdle /\ rm = RmIdle /\ fps = FpsNew
    /\ \E ministats \in BOOLEAN, w \in Worlds :
           vw = [VwNew EXCEPT !.pc = "running", !.renderNextFrame = TRUE,
                              !.ministats = ministats, !.world = w]

NextViewer ==
    \/ ResizeCanvas \/ CameraMoves \/ LoadsResolved \/ SorterUpdated \/ FrameReady
    \/ FrameRender \/ FrameRendered

SpecViewer == InitViewer /\ [][NextViewer]_vars

---------------------------------------------------------------------------
(* Claims about the traversal (SpecTraverse)                               *)

Probed == probe # NoProbe

ProbeOutside ==
    \/ probe[1] < 0 \/ probe[2] < 0 \/ probe[3] < 0
    \/ probe[1] >= numVoxels.x \/ probe[2] >= numVoxels.y \/ probe[3] >= numVoxels.z

\* C1: a voxel index that is negative or >= numVoxels on some axis (the index
\* equal to numVoxels included) is not solid, and isVoxelSolid reads no node
\* and no leaf word to say so.
C1_OutsideNotSolid ==
    (Probed /\ ProbeOutside) =>
        /\ probeRes.solid = FALSE
        /\ probeRes.nodeReads = <<>>
        /\ probeRes.leafReads = <<>>

\* the index exactly numVoxels on x, in range on y and z, on a grid whose root
\* is the solid sentinel: a walk would have answered true
C1_Witness ==
    /\ Probed
    /\ probe[1] = numVoxels.x
    /\ probe[2] \in 0 .. numVoxels.y - 1 /\ probe[3] \in 0 .. numVoxels.z - 1
    /\ Len(nodes) > 0 /\ nodes[1] = SOLID_LEAF_MARKER
    /\ probeRes.solid = FALSE

\* C3: when a node word on the path of an in-range voxel is 0xFF000000, at
\* any level, it is the last node read, the answer is true and no leaf word
\* is read.
C3_SentinelIsSolid ==
    Probed =>
        \A i \in 1 .. Len(probeRes.nodeReads) :
            NodeAt(probeRes.nodeReads[i]) = SOLID_LEAF_MARKER =>
                /\ i = Len(probeRes.nodeReads)
                /\ probeRes.solid = TRUE
                /\ probeRes.leafReads = <<>>

\* the sentinel met at an interior level (second node read of a depth-2 tree)
C3_Witness ==
    /\ Probed
    /\ treeDepth = 2
    /\ Len(probeRes.nodeReads) = 2
    /\ NodeAt(probeRes.nodeReads[2]) = SOLID_LEAF_MARKER
    /\ probeRes.solid = TRUE

\* C4: on arrays encoded from a source occupancy, isVoxelSolid answers the
\* source occupancy bit of every voxel index asked about.
C4_RoundTrip ==
    (Probed /\ src # NoSrc) =>
        probeRes.solid = Occ(src, probe[1], probe[2], probe[3])

IsInterior(w) == w.hi # 0 /\ w # SOLID_LEAF_MARKER

IsMixedLeaf(w) == w.hi = 0

\* a depth-2 tree holding interior nodes below the root, a sentinel and mixed
\* leaves, asked about a solid voxel of a mixed leaf
C4_Witness ==
    /\ Probed /\ src # NoSrc /\ treeDepth = 2
    /\ \E i \in 2 .. Len(nodes) : IsInterior(nodes[i])
    /\ \E i \in 2 .. Len(nodes) : nodes[i] = SOLID_LEAF_MARKER
    /\ \E i \in 2 .. Len(nodes) : IsMixedLeaf(nodes[i])
    /\ Len(probeRes.nodeReads) = 3
    /\ probeRes.leafReads # <<>>
    /\ probeRes.solid = TRUE

\* C17: on arrays encoded from a source occupancy and for every voxel of the
\* grid, the shader's answer (queryBlock on the voxel's block, then the mask
\* test on its coordinates in the block) is the answer of isVoxelSolid; the
\* shader reads nothing past the end of a buffer, an empty block (0) is not
\* solid and a solid block (1) is.
C17_GpuAgreesWithCpu ==
    (gpu # NoGpu /\ src # NoSrc) =>
        /\ gpu.solid = probeRes.solid
        /\ gpu.past = FALSE
        /\ gpu.result = 0 => ~probeRes.solid
        /\ gpu.result = 1 => probeRes.solid
        /\ gpu.result > 1 => probeRes.leafReads # <<>>

\* a solid voxel of the upper half of a mixed leaf (bit index 32 or more) two
\* levels below the root
C17_Witness ==
    /\ gpu # NoGpu /\ src # NoSrc /\ treeDepth = 2
    /\ gpu.result > 1
    /\ (probe[3] % 4) * 16 + (probe[2] % 4) * 4 + (probe[1] % 4) >= 32
    /\ gpu.solid = TRUE /\ probeRes.solid = TRUE
    /\ Len(probeRes.nodeReads) = 3

\* C18: on any arrays, those with cycles and offsets past the end included,
\* isVoxelSolid reads at most treeDepth + 1 node words and at most one leaf
\* word and answers true or false.
C18_BoundedWalk ==
    Probed =>
        /\ Len(probeRes.nodeReads) <= treeDepth + 1
        /\ Len(probeRes.leafReads) <= 1
        /\ probeRes.solid \in BOOLEAN

\* a root that is its own child, walked treeDepth + 1 = 3 times
C18_Witness ==
    /\ Probed /\ src = NoSrc /\ treeDepth = 2
    /\ NodeAt(0) = Word(1, 0)
    /\ probeRes.nodeReads = <<0, 0, 0>>

\* a walk to an offset past the end of the node array
C18_WitnessPastEnd ==
    /\ Probed /\ src = NoSrc
    /\ \E i \in 1 .. Len(probeRes.nodeReads) : probeRes.nodeReads[i] >= Len(nodes)

\* the octant of the probed voxel's block at the level of the k-th node read
ProbeOctant(k) ==
    LET level == treeDepth - k
        bitX == ((probe[1] \div leafSize) \div Pow2(level)) % 2
        bitY == ((probe[2] \div leafSize) \div Pow2(level)) % 2
        bitZ == ((probe[3] \div leafSize) \div Pow2(level)) % 2
    IN  bitZ * 4 + bitY * 2 + bitX

\* the number of 1 bits of n, bit by bit
RECURSIVE Ones(_)
Ones(n) == IF n = 0 THEN 0 ELSE (n % 2) + Ones(n \div 2)

\* the bits of mask below bit i
Below(mask, i) == mask % Pow2(i)

\* C19: popcount(n) is the number of 1 bits of n for every mask value n; a
\* node read after another is the child of a present octant, at index
\* baseOffset + (number of mask bits below the octant); a walk that ends on
\* an interior node whose octant bit is clear answers false and reads no leaf
\* word.
C19_ChildAddressing ==
    /\ pcall # NoCall => pcall.r = Ones(pcall.n)
    /\ Probed =>
          \A k \in 1 .. Len(probeRes.nodeReads) :
              LET node == NodeAt(probeRes.nodeReads[k])
                  i == ProbeOctant(k)
                  present == (node.hi \div Pow2(i)) % 2 = 1
              IN  /\ k < Len(probeRes.nodeReads) =>
                        /\ IsInterior(node) /\ present
                        /\ probeRes.nodeReads[k + 1] = node.lo + Ones(Below(node.hi, i))
                  /\ (k = Len(probeRes.nodeReads) /\ k <= treeDepth
                         /\ IsInterior(node) /\ ~present) =>
                        (probeRes.solid = FALSE /\ probeRes.leafReads = <<>>)

\* a walk of a depth-2 tree whose second node is not the first child of the
\* root and whose third is not the first child of the second
C19_Witness ==
    /\ Probed /\ src # NoSrc /\ treeDepth = 2
    /\ Len(probeRes.nodeReads) = 3
    /\ probeRes.nodeReads[2] > NodeAt(0).lo
    /\ probeRes.nodeReads[3] > NodeAt(probeRes.nodeReads[2]).lo

\* popcount called on the full mask
C19_WitnessPopcount == pcall # NoCall /\ pcall.n = 255 /\ pcall.r = 8

\* a walk that ended on an absent octant below the root
C19_WitnessAbsent ==
    /\ Probed /\ treeDepth = 2
    /\ Len(probeRes.nodeReads) = 2
    /\ IsInterior(NodeAt(probeRes.nodeReads[2]))
    /\ probeRes.solid = FALSE

---------------------------------------------------------------------------
(* Claims about the queries (SpecQuery)                                    *)

Returned == q.pc = "idle" /\ q.n > 0

\* C2: on a collider whose nodes array is empty every query returns false and
\* the caller's out stays as it was before the call.
C2_EmptyCollider ==
    (Len(nodes) = 0 /\ q.n > 0) =>
        /\ q.pc = "idle"
        /\ ret = FALSE
        /\ out = q.out0

\* the second query on an unloaded collider, a capsule, with out not zero
C2_Witness ==
    /\ Len(nodes) = 0
    /\ q.n = 2 /\ q.kind = "capsule" /\ q.pc = "idle"
    /\ ret = FALSE
    /\ out = Vec(7, -3, 5)

AxisGap(c, lo, hi) == IF c < lo THEN lo - c ELSE IF c > hi THEN c - hi ELSE 0

\* whether the AABB of voxel (x, y, z) is at distance >= radius from point c
VoxelClear(c, radius, x, y, z) ==
    LET gx == AxisGap(c.x, gridMin.x + x * voxelResolution, gridMin.x + (x + 1) * voxelResolution)
        gy == AxisGap(c.y, gridMin.y + y * voxelResolution, gridMin.y + (y + 1) * voxelResolution)
        gz == AxisGap(c.z, gridMin.z + z * voxelResolution, gridMin.z + (z + 1) * voxelResolution)
    IN  \/ gx >= radius \/ gy >= radius \/ gz >= radius
        \/ gx * gx + gy * gy + gz * gz >= radius * radius

\* every solid voxel of the source occupancy is at distance >= radius from c
NoPenetration(c, radius) ==
    \A x \in 0 .. numVoxels.x - 1, y \in 0 .. numVoxels.y - 1, z \in 0 .. numVoxels.z - 1 :
        (src # NoSrc /\ Occ(src, x, y, z)) => VoxelClear(c, radius, x, y, z)

\* C6: a sphere that penetrates no solid voxel gets false and out unmodified.
C6_NoPenetrationNoCollision ==
    (Returned /\ q.kind = "sphere" /\ NoPenetration(q.c, q.radius)) =>
        /\ ret = FALSE
        /\ out = q.out0

\* the sphere asked about again at the position the first query resolved it to
\* (0.2 above where it was, now touching the origin voxel): no collision
C6_Witness ==
    /\ Returned /\ q.n = 2 /\ q.kind = "sphere"
    /\ src = [depth |-> 1, seed |-> -1]
    /\ q.out0 = Vec(0, 2 * Tenth, 0)
    /\ q.c = At(5, 15, 5)
    /\ NoPenetration(q.c, q.radius)
    /\ ret = FALSE /\ out = q.out0

\* C7 as stated: the only state a query writes is the caller-owned out buffer.
C7_QueriesWriteOnlyOut == [][UNCHANGED <<gridVars, scratchVars>>]_vars

\* C7 amended: a sphere or capsule query run to its return gives the result
\* and the out it gives alone on a collider with scratch as constructed, whatever
\* earlier queries left in _push and _constraintNormals.
C7_AsAlone ==
    (Returned /\ q.kind \in {"sphere", "capsule"}) =>
        LET a == Alone(q.kind, q.c, q.halfHeight, q.radius)
        IN  /\ ret = a.ret
            /\ out = IF a.ret THEN a.total ELSE q.out0

\* a second query that recorded fewer normals than the scratch holds from the
\* first one, and returned a push
C7_Witness ==
    /\ Returned /\ q.n = 2 /\ q.kind \in {"sphere", "capsule"}
    /\ ret = TRUE
    /\ q.numNormals = 1
    /\ _constraintNormals[2] # ZeroVec

\* C8: no step of a query changes the grid.
C8_GridImmutable == [][UNCHANGED gridVars]_vars

\* two queries done on a loaded collider, the last one with two pushes
C8_Witness ==
    /\ Len(nodes) > 0
    /\ Returned /\ q.n = 2
    /\ q.iter = 2 /\ ret = TRUE

\* the sphere of the last query has its centre outside floor and wall and
\* nearer than its radius to the face of each
InCorner ==
    /\ src = FloorAndWall /\ q.kind = "sphere"
    /\ q.c.x > Face /\ q.c.x - Face < q.radius
    /\ q.c.y > Face /\ q.c.y - Face < q.radius

\* where the caller puts the sphere after the query: moved by out when the
\* query returned true
Applied == IF ret THEN VAdd(q.c, out) ELSE q.c

\* C12: a sphere in the corner of floor and wall, centre outside both, gets a
\* push after which it is no nearer than radius - epsilon to either face and
\* querySphere at the pushed centre returns false; when it is deeper than
\* epsilon in both faces the query returns true.
C12_CornerConverges ==
    (Returned /\ InCorner) =>
        /\ Applied.x - Face >= q.radius - PENETRATION_EPSILON
        /\ Applied.y - Face >= q.radius - PENETRATION_EPSILON
        /\ ~Alone("sphere", Applied, 0, q.radius).ret
        /\ (/\ q.radius - (q.c.x - Face) > PENETRATION_EPSILON
            /\ q.radius - (q.c.y - Face) > PENETRATION_EPSILON) => ret

\* a corner sphere deeper in the wall than in the floor, pushed out of both in
\* two iterations
C12_Witness ==
    /\ Returned /\ InCorner
    /\ q.c = At(12, 14, 25)
    /\ q.iter = 2 /\ ret = TRUE
    /\ out = Vec(3 * Tenth, Tenth, 0)

\* the sphere of the last query is over the floor, centre above the face at a
\* distance below its radius
OverFloor ==
    /\ src = Floor /\ q.kind = "sphere"
    /\ q.c.y > Face /\ q.c.y - Face < q.radius

\* C13 as stated: every sphere over the floor at distance d < radius gets one
\* iteration with a penetration, then one without, and a total push of
\* (0, radius - d, 0).
C13_OneIterationAnyDepth ==
    (Returned /\ OverFloor) =>
        /\ q.iter = 1 /\ q.resolves = 2
        /\ ret = TRUE
        /\ out = Vec(0, q.radius - (q.c.y - Face), 0)

\* C13 amended: the same for a sphere that is deeper than epsilon in the
\* floor; one that is in by epsilon or less gets false and no push.
C13_OneIteration ==
    (Returned /\ OverFloor) =>
        IF q.radius - (q.c.y - Face) > PENETRATION_EPSILON
        THEN /\ q.iter = 1 /\ q.resolves = 2
             /\ ret = TRUE
             /\ out = Vec(0, q.radius - (q.c.y - Face), 0)
        ELSE /\ q.iter = 0 /\ q.resolves = 1
             /\ ret = FALSE /\ out = q.out0

\* a sphere over the corner of four floor voxels, all four as deep as each
\* other: one push of 0.2
C13_Witness ==
    /\ Returned /\ OverFloor
    /\ q.c = At(20, 13, 30)
    /\ q.iter = 1 /\ q.resolves = 2
    /\ ret = TRUE /\ out = Vec(0, 2 * Tenth, 0)

\* the sphere of the last query is over the top face of the one voxel, at a
\* height below its radius
OverVoxel ==
    /\ src = OneVoxel /\ q.kind = "sphere"
    /\ q.c.x >= gridMin.x /\ q.c.x <= gridMin.x + voxelResolution
    /\ q.c.z >= gridMin.z /\ q.c.z <= gridMin.z + voxelResolution
    /\ q.c.y > Face /\ q.c.y - Face < q.radius

\* C14 as stated: every sphere over the top face of the one voxel at height
\* h < radius gets true and out = (0, radius - h, 0); for the sphere at
\* (0.5, 1.3, 0.5) of radius 0.5 that is (0, 0.2, 0).
C14_PushedUpAnyDepth ==
    (Returned /\ OverVoxel) =>
        /\ ret = TRUE
        /\ out = Vec(0, q.radius - (q.c.y - Face), 0)

\* C14 amended: the same for a sphere that is deeper than epsilon in the
\* voxel; one that is in by epsilon or less gets false and out unwritten.
C14_PushedUp ==
    (Returned /\ OverVoxel) =>
        IF q.radius - (q.c.y - Face) > PENETRATION_EPSILON
        THEN ret = TRUE /\ out = Vec(0, q.radius - (q.c.y - Face), 0)
        ELSE ret = FALSE /\ out = q.out0

\* the sphere at (0.5, 1.3, 0.5) of radius 0.5 over the one voxel
C14_Witness ==
    /\ Returned /\ OverVoxel
    /\ q.c = At(5, 13, 5) /\ q.radius = 5 * Tenth
    /\ ret = TRUE /\ out = Vec(0, 2 * Tenth, 0)

\* the capsule of the last query stands over the one voxel: the bottom of its
\* segment is above the top face by less than the radius
Standing ==
    /\ src = OneVoxel /\ q.kind = "capsule"
    /\ q.c.x >= gridMin.x /\ q.c.x <= gridMin.x + voxelResolution
    /\ q.c.z >= gridMin.z /\ q.c.z <= gridMin.z + voxelResolution
    /\ q.c.y - q.halfHeight > Face
    /\ q.c.y - q.halfHeight - Face < q.radius

\* how deep the bottom cap is in the top face
CapDepth == q.radius - (q.c.y - q.halfHeight - Face)

\* C15 as stated: every capsule whose bottom cap penetrates the top face of
\* the one voxel gets true with out.y > 0 and out.x = out.z = 0.
C15_GroundedAnyDepth ==
    (Returned /\ Standing) =>
        /\ ret = TRUE
        /\ out.y > 0 /\ out.x = 0 /\ out.z = 0

\* C15 amended: the same for a bottom cap deeper than epsilon in the face,
\* and the push is its depth; a cap in by epsilon or less gets false.
C15_Grounded ==
    (Returned /\ Standing) =>
        IF CapDepth > PENETRATION_EPSILON
        THEN ret = TRUE /\ out = Vec(0, CapDepth, 0)
        ELSE ret = FALSE /\ out = q.out0

\* a capsule over the corner of the voxel, bottom cap 0.1 deep
C15_Witness ==
    /\ Returned /\ Standing
    /\ q.c = At(10, 17, 0)
    /\ ret = TRUE /\ out = Vec(0, Tenth, 0)

\* C16: the resolver runs at most maxIterations times in a call; every run
\* but the last found a penetration, and the call returns after a run that
\* found none or after the run that made maxIterations.
C16_AtMostFourResolves ==
    /\ q.resolves <= maxIterations
    /\ q.pc = "loop" => q.resolves = q.iter
    /\ (Returned /\ q.kind \in {"sphere", "capsule"} /\ Len(nodes) > 0) =>
           \/ q.iter < maxIterations /\ q.resolves = q.iter + 1 /\ ~Resolved.found
           \/ q.iter = maxIterations /\ q.resolves = maxIterations

\* a sphere in a grid solid throughout: returned after four runs that all
\* found a penetration, and still penetrating where it was left
C16_Witness ==
    /\ Returned /\ src = AllSolid /\ q.kind = "sphere"
    /\ q.iter = maxIterations /\ q.resolves = maxIterations
    /\ Resolved.found
    /\ ret = TRUE

\* the voxels of the index range of the shape at its candidate position
RangeVoxels ==
    LET rg == Range(q.kind, q.resolved.x, q.resolved.y, q.resolved.z, q.halfHeight, q.radius)
    IN  (rg.ixMin .. rg.ixMax) \X (rg.iyMin .. rg.iyMax) \X (rg.izMin .. rg.izMax)

\* voxel v comes before voxel w in the scan: z, then y, then x
Before(v, w) ==
    \/ v[3] < w[3]
    \/ v[3] = w[3] /\ v[2] < w[2]
    \/ v[3] = w[3] /\ v[2] = w[2] /\ v[1] < w[1]

\* the push of voxel v on the shape, for a voxel that is solid in the source
PushOf(v) ==
    IF ~Occ(src, v[1], v[2], v[3]) THEN NoContact
    ELSE IF q.kind = "capsule"
    THEN VoxelPush(q.resolved.x, SegY(q.resolved.y, q.halfHeight, v[2]), q.resolved.z,
                   q.radius, v[1], v[2], v[3])
    ELSE IF q.kind = "sphereOther"
    THEN VoxelPushOther(q.resolved.x, q.resolved.y, q.resolved.z, q.radius, v[1], v[2], v[3])
    ELSE VoxelPush(q.resolved.x, q.resolved.y, q.resolved.z, q.radius, v[1], v[2], v[3])

\* the voxels of the range that penetrate by more than epsilon
Penetrating ==
    {v \in RangeVoxels : PushOf(v).hit /\ PushOf(v).penetration > PENETRATION_EPSILON}

\* a deepest one of them, the first in scan order among equals
Deepest ==
    CHOOSE v \in Penetrating :
        \A w \in Penetrating \ {v} :
            \/ PushOf(w).penetration < PushOf(v).penetration
            \/ PushOf(w).penetration = PushOf(v).penetration /\ Before(v, w)

\* C20: a run of the resolver (sphere or capsule) returns true iff some solid
\* voxel of the range penetrates by more than epsilon; it then stores the push
\* of a deepest voxel, the first in z-then-y-then-x order among equals; when
\* it returns false the stored push is left as it was.
C20_DeepestWins ==
    [][(q.pc = "loop" /\ q.iter < maxIterations) =>
          IF Penetrating # {}
          THEN /\ q'.pc = "loop" /\ q'.iter = q.iter + 1
               /\ _push' = PushOf(Deepest).push
          ELSE /\ q'.pc = "idle" /\ q'.resolves = q.resolves + 1
               /\ _push' = _push]_vars

\* after the first run of the resolver on a corner sphere as deep in the
\* floor as in the wall: the floor voxel comes first in the scan and its push
\* is stored
C20_Witness ==
    /\ src = FloorAndWall /\ q.kind = "sphere" /\ q.c = At(13, 13, 25)
    /\ q.pc = "loop" /\ q.iter = 1
    /\ _push = Vec(0, 2 * Tenth, 0)

\* a second query whose first run of the resolver found nothing: the push of
\* the query before is still stored
C20_WitnessUnwritten ==
    /\ Returned /\ q.n = 2 /\ q.kind = "capsule" /\ q.resolves = 1 /\ q.iter = 0
    /\ _push # ZeroVec

\* the point of the shape the resolver measures voxel v against: the centre
\* of the sphere, the chosen segment point of the capsule
ShapePoint(v) ==
    Vec(q.resolved.x,
        IF q.kind = "capsule" THEN SegY(q.resolved.y, q.halfHeight, v[2]) ELSE q.resolved.y,
        q.resolved.z)

VoxelMin(v) ==
    Vec(gridMin.x + v[1] * voxelResolution, gridMin.y + v[2] * voxelResolution,
        gridMin.z + v[3] * voxelResolution)

\* voxel v is solid and holds the shape point
HoldsPoint(v) ==
    /\ Occ(src, v[1], v[2], v[3])
    /\ \A a \in Axes :
           /\ VoxelMin(v)[a] <= ShapePoint(v)[a]
           /\ ShapePoint(v)[a] <= VoxelMin(v)[a] + voxelResolution

\* distance from the shape point to the nearer face of v on axis a, plus the
\* radius
Escape(v, a) ==
    Min(ShapePoint(v)[a] - VoxelMin(v)[a],
        VoxelMin(v)[a] + voxelResolution - ShapePoint(v)[a]) + q.radius

\* C21: in either copy of the resolver, for a solid voxel that holds the sphere
\* centre (the capsule's segment point), the push computed is along one axis only, an axis of
\* least escape (distance to the nearer face plus radius), directed out of
\* that nearer face; the penetration is that escape, and the pushed point is
\* a radius outside the face.
C21_InsidePushOneAxis ==
    q.pc = "loop" =>
        \A v \in RangeVoxels :
            HoldsPoint(v) =>
                LET c == PushOf(v)
                    pt == ShapePoint(v)
                    lo == VoxelMin(v)
                IN  /\ c.hit
                    /\ \E a \in Axes :
                           /\ \A b \in Axes \ {a} : c.push[b] = 0 /\ Escape(v, a) <= Escape(v, b)
                           /\ c.penetration = Escape(v, a)
                           /\ Abs(c.push[a]) = Escape(v, a)
                           /\ IF c.push[a] < 0
                              THEN /\ pt[a] - lo[a] <= lo[a] + voxelResolution - pt[a]
                                   /\ pt[a] + c.push[a] = lo[a] - q.radius
                              ELSE /\ lo[a] + voxelResolution - pt[a] <= pt[a] - lo[a]
                                   /\ pt[a] + c.push[a] = lo[a] + voxelResolution + q.radius

\* a capsule in the all-solid scene after its first push: the segment point
\* is inside the voxels of its rows
C21_Witness ==
    /\ src = AllSolid /\ q.kind = "capsule" /\ q.pc = "loop" /\ q.iter = 1
    /\ \E v \in RangeVoxels : HoldsPoint(v) /\ PushOf(v).push.x # 0

\* a sphere with its centre inside the origin voxel, nearest to a face in z
C21_WitnessSphere ==
    /\ q.kind = "sphere" /\ q.pc = "loop" /\ q.iter = 0
    /\ \E v \in RangeVoxels : HoldsPoint(v) /\ PushOf(v).push.y # 0

Dot(a, b) == a.x * b.x + a.y * b.y + a.z * b.z

\* the rounding of the projection: three components, each within a tick
DotSlack == 3 * Unit

\* a step is an iteration of the loop that applied a push
IterStep == q.pc = "loop" /\ q'.pc = "loop" /\ q'.iter = q.iter + 1

\* the push the step applied to the candidate position
AppliedPush ==
    Vec(q'.resolved.x - q.resolved.x, q'.resolved.y - q.resolved.y,
        q'.resolved.z - q.resolved.z)

\* C22: in every iteration of querySphere and queryCapsule the push applied
\* to the candidate position has, up to rounding, a non-negative dot product
\* with each normal recorded by an earlier iteration.
C22_NeverAgainstEarlierNormal ==
    [][IterStep =>
          \A i \in 1 .. q.numNormals :
              Dot(AppliedPush, _constraintNormals[i]) >= -DotSlack]_vars

\* how far the query moved the candidate position from where it was called:
\* the sum of the pushes applied
Moved == Vec(q.resolved.x - q.c.x, q.resolved.y - q.c.y, q.resolved.z - q.c.z)

WrittenNormals ==
    [i \in 1 .. 3 |-> IF i <= q.numNormals THEN _constraintNormals[i] ELSE ZeroVec]

\* C29: the count of recorded normals is 0 when a call starts and min(k, 3)
\* after k iterations that found a penetration; an iteration writes only the
\* slot numbered by the count, within the three slots, and what it applies is
\* its push projected against the slots written earlier in the same call,
\* whatever the other slots hold.
C29_NormalBookkeeping ==
    [][/\ q'.n = q.n + 1 => q'.numNormals = 0
       /\ IterStep =>
              /\ q.numNormals = Min(q.iter, 3)
              /\ q'.numNormals = Min(q.iter + 1, 3)
              /\ DOMAIN _constraintNormals' = 1 .. 3
              /\ \A i \in 1 .. 3 :
                     IF i = q.numNormals + 1
                     THEN _constraintNormals'[i] = Normalized(_push')
                     ELSE _constraintNormals'[i] = _constraintNormals[i]
              /\ AppliedPush = ProjectFrom(_push', 0, 3, WrittenNormals)]_vars

\* a second call that ran all four iterations: three normals recorded, the
\* fourth push not recorded
C29_Witness ==
    /\ Returned /\ q.n = 2 /\ q.kind \in {"sphere", "capsule"}
    /\ q.iter = maxIterations /\ q.numNormals = 3

\* a second call about to project against its one normal while the next
\* slot holds a normal of the first call
C29_WitnessStale ==
    /\ q.n = 2 /\ q.pc = "loop" /\ q.iter = 1 /\ q.numNormals = 1
    /\ _constraintNormals[2] # ZeroVec
    /\ Resolved.found

---------------------------------------------------------------------------
(* Claims about the load (SpecLoad)                                        *)

Constructed == ld.pc = "resolved"

\* C9 as stated: a collider is only ever built from a buffer of at least
\* nodeCount + leafDataCount words, with nodes of length nodeCount and leafData
\* of length leafDataCount.
C9_ShortBufferRejected ==
    Constructed =>
        /\ ld.words >= ld.nodeCount + ld.leafDataCount
        /\ Len(nodes) = ld.nodeCount
        /\ Len(leafData) = ld.leafDataCount

\* C10: a collider is constructed only after both fetches gave an ok response;
\* a response that is not ok (or a fetch that rejects) ends the load rejected
\* with no field of a collider set.
C10_BothFetchesOk ==
    /\ Constructed => (ld.meta = "ok" /\ ld.bin = "ok")
    /\ (ld.meta \in {"notok", "neterr"} \/ ld.bin \in {"notok", "neterr"}) =>
           (ld.pc = "rejected" /\ NoGrid)

\* the metadata was fetched and parsed, the binary response is not ok
C10_Witness ==
    /\ ld.meta = "ok" /\ ld.bin = "notok"
    /\ ld.nodeCount > 0
    /\ ld.pc = "rejected" /\ NoGrid

---------------------------------------------------------------------------
(* Claims about main (SpecMain)                                            *)

\* C11: when config.voxelUrl is set and VoxelCollider.load has rejected, main
\* has resolved with the Viewer constructed, and the voxel load promise is
\* pending or resolved to null, never rejected and never a collider, whatever
\* the other two loads have done by then.
C11_VoxelFailureCaught ==
    (mn.voxelUrl /\ ld.pc = "rejected") =>
        /\ mn.pc = "resolved"
        /\ mn.viewer
        /\ mn.voxel \in {"pending", "null"}

\* the voxel load rejected on its binary fetch and was caught while the model
\* load had already rejected and the skybox load was still pending
C11_Witness ==
    /\ mn.voxelUrl /\ ld.pc = "rejected" /\ ld.bin = "notok"
    /\ mn.voxel = "null"
    /\ mn.gsplat = "rejected" /\ mn.skybox = "pending"
    /\ mn.pc = "resolved" /\ mn.viewer

---------------------------------------------------------------------------
(* Claims about the ray march of the overlay shader (SpecMarch)            *)

\* whether blocks p and b lie in the same aligned cell of 2^level blocks per
\* axis
SameCell(p, b, level) == \A a \in Axes : p[a] \div Pow2(level) = b[a] \div Pow2(level)

\* C24: when queryBlock reports empty at a level L >= 1, every block the skip
\* loop passes through before it breaks lies in the aligned cell of 2^L blocks
\* per axis that holds the block the skip began at, and queryBlock is empty
\* for each of them: the fast-forward never steps over a solid or mixed block
C24_SkipStaysInEmptyCell ==
    rm.skipped /\ rm.skipLevel >= 1 =>
        \A i \in 1 .. Len(rm.passed) :
            /\ SameCell(rm.passed[i], rm.skipFrom, rm.skipLevel)
            /\ \A oob \in OobWords(nodes) :
                   queryBlock(rm.passed[i].x, rm.passed[i].y, rm.passed[i].z, oob).result = 0

\* a skip over a cell of two blocks per axis that passed through two further
\* blocks of the cell
C24_Witness ==
    /\ rm.skipped /\ rm.skipLevel = 1 /\ Len(rm.passed) = 2
    /\ rm.skipFrom.x % 2 = 1
    /\ ~SameCell(rm.b, rm.skipFrom, 1)

\* C25: for any node array and any ray an invocation ends, the block loop
\* within 512 iterations, each with at most 128 skip steps or 12 voxel steps
\* and one walk of queryBlock of at most treeDepth node reads, so that
\* totalWork never exceeds 512 * 129.  The reads are counted in the claim's
\* favour: one per level and the read at "Reached leaf level"
C25_InvocationBounded ==
    /\ rm.pc # "spinning"
    /\ rm.walk <= treeDepth + 1
    /\ rm.step <= MAX_STEPS
    /\ rm.skipSteps <= 128
    /\ rm.vSteps <= 12
    /\ rm.totalWork <= MAX_STEPS * 129

\* C28: every voxel for which isVoxelSolid is true belongs to a block of the
\* range [0, numVoxels / leafSize) the kernel traverses, on each axis
C28_SolidVoxelsTraversable ==
    \A ix \in 0 .. numVoxels.x - 1, iy \in 0 .. numVoxels.y - 1, iz \in 0 .. numVoxels.z - 1 :
        isVoxelSolid(ix, iy, iz) =>
            ~OutOfBlocks(Vec(ix \div leafSize, iy \div leafSize, iz \div leafSize))

\* C30: within a block that is not empty the voxel loop ends at a solid voxel
\* or by a step out of 0 .. leafSize - 1, never by its cap of 12 steps: a ray
\* visits at most 10 voxels of one block
C30_VoxelLoopEndsBeforeCap ==
    /\ rm.vEnd \in {"none", "hit", "exit"}
    /\ rm.vSteps <= 10
    /\ rm.vEnd = "none" <=> rm.vSteps = 0

\* a ray that left a block after visiting 10 of its voxels, none solid
C30_Witness == rm.vEnd = "exit" /\ rm.vSteps = 10

\* a ray that ended at a solid voxel after stepping through empty ones
C30_WitnessHit == rm.pc = "hit" /\ rm.vEnd = "hit" /\ rm.vSteps >= 3

---------------------------------------------------------------------------
(* Claims about the first-person controller (SpecFps)                      *)

\* C26: after any sequence of onEnter, goto and update calls _onGround is
\* true only if the most recent call was an update whose target-position
\* query pushed the capsule upward while it was falling, so that an update
\* with no such push leaves it false and a jump begins only in an update that
\* follows one with such a push
C26_OnGroundOnlyWhenSupported ==
    fps.pc = "idle" =>
        /\ fps._onGround => fps.last = "update" /\ fps.pushedUp
        /\ fps.jumped => ~fps.midAir

---------------------------------------------------------------------------
(* Claims about the Viewer's render gate (SpecViewer)                      *)

\* C27: no frame is rendered before the viewer is ready: whenever the
\* 'framerender' handler finishes while state.readyToRender is false,
\* app.renderNextFrame is false, on the sorter path and on the unified path
C27_NoRenderBeforeReady ==
    vw.last = "framerender" /\ ~vw.readyToRender => ~vw.renderNextFrame

=============================================================================
